---- MODULE Spec2Model ----
(***************************************************************************)
(* A model of the jqyaml pipeline: Pipeline construction (New), the        *)
(* Execute call (option application, sink resolution, input conversion,    *)
(* variable conversion, query compilation, streaming) and the two built-in *)
(* encoders (JSON with compact/pretty/raw, YAML with document separators). *)
(* Further specifications run Execute again on the same pipeline, and two  *)
(* Execute calls at the same time.                                         *)
(* Bytes are modelled as sequences of one-character strings.               *)
(***************************************************************************)
EXTENDS Integers, Sequences, FiniteSets, TLC

VARIABLES
    pc,         \* position of the caller: "init", "idle", "failed", "configuring", "next", "deliver", "returned"
    p,          \* the pipeline struct built by New
    newErr,     \* the error returned by New
    newOpts,    \* the construction options handed to New
    nApplied,   \* number of construction options New applied before returning
    cfg,        \* the executeConfig of the running Execute call
    supplied,   \* the compact/pretty/raw execute-options applied so far, ordered by last use
    lastTimeout, \* the duration of the last WithTimeout option applied so far, if any
    input,      \* the input value handed to Execute
    marshaled,  \* values handed to the active InputMarshaler, in call order
    enc,        \* state of the encoder created for the call
    iter,       \* the engine's result sequence not yet pulled
    pulled,     \* items returned by iter.Next so far
    cur,        \* item pulled and not yet delivered
    ctx,        \* state of the context the engine runs under
    derived,    \* Execute derived a deadline-bound context from the caller's context
    sink,       \* items handed to the sink (callback or Encode), in call order
    sinkRet,    \* what each of those sink calls returned
    out,        \* Write calls that reached the writer, in order
    ret,        \* the error returned by Execute
    calls,      \* for each Execute call begun: the length of out then, and what the call before returned
    other       \* the call-local state of a second Execute call on the pipeline, while descheduled

vars == <<pc, p, newOpts, newErr, nApplied, cfg, supplied, lastTimeout, input, marshaled, enc,
          iter, pulled, cur, ctx, derived, sink, sinkRet, out, ret, calls, other>>

(***************************************************************************)
(* Bounds of the model.                                                    *)
(***************************************************************************)
MaxItems == 2       \* longest input list, hence longest result stream
MaxNewOpts == 2     \* longest construction-option list
MaxVars == 2        \* most variables bound in one call
MaxPulls == 3       \* most items pulled from a query that never ends
MaxCalls == 2       \* Execute calls made one after the other on a pipeline
MaxEncodeOpts == 2  \* most encode options one call is given
MaxDepth == 2       \* deepest nesting of the values given to the default normalizer

(***************************************************************************)
(* Values.  A Go value is a record tagged by its dynamic type.             *)
(***************************************************************************)
Str(s) == [t |-> "string", s |-> s]
IntV(n) == [t |-> "int", n |-> n]
Int32V(n) == [t |-> "int32", n |-> n]
\* a float64 of value hi * 2^64 + n
FloatV(n) == [t |-> "float64", n |-> n, hi |-> 0]
\* float64(2^64), the float64 nearest to every *big.Int of the model
Float2p64 == [t |-> "float64", n |-> 0, hi |-> 1]
Arr(a) == [t |-> "array", a |-> a]
Obj(o) == [t |-> "object", o |-> o]
BoolV(b) == [t |-> "bool", bool |-> b]
\* the *big.Int 2^64 + n, beyond every machine integer
BigIntV(n) == [t |-> "big.Int", n |-> n]
Chan == [t |-> "chan"]
Null == [t |-> "nil"]

\* "q" followed by a double quote, a newline and a backslash
Special == <<"q", "\"", "\n", "\\">>
Obj1 == Obj(<<[k |-> "k", v |-> Arr(<<IntV(1)>>)]>>)
\* the values the input lists are made of
Elems == {Str(Special), Obj1}

RECURSIVE SeqsUpTo(_, _)
SeqsUpTo(S, n) ==
    IF n = 0 THEN {<<>>}
    ELSE LET shorter == SeqsUpTo(S, n - 1)
         IN  shorter \cup {Append(s, e) : s \in {x \in shorter : Len(x) = n - 1}, e \in S}

Inputs ==
    {Str(Special), IntV(12), Obj1, Chan, Int32V(7), BigIntV(0), Arr(<<BoolV(TRUE), BigIntV(0)>>)}
    \cup {Arr(a) : a \in SeqsUpTo(Elems, MaxItems)}

(***************************************************************************)
(* Errors.  nil is NilErr; every error value is a record tagged by err.    *)
(***************************************************************************)
NilErr == [err |-> "nil"]
NoErr == [err |-> "none"]
ErrorsNew(msg) == [err |-> "error", msg |-> msg]
DeadlineExceeded == [err |-> "context.DeadlineExceeded"]
Canceled == [err |-> "context.Canceled"]
QueryError(query, message, cause) ==
    [err |-> "QueryError", Query |-> query, Message |-> message, Err |-> cause]
ConversionError(value, type, cause) ==
    [err |-> "ConversionError", Value |-> value, Type |-> type, Err |-> cause]
TimeoutError(duration) == [err |-> "TimeoutError", Duration |-> duration]
Unwrap(e) == IF e.err \in {"QueryError", "ConversionError"} THEN e.Err ELSE NilErr

\* an error marker inside the engine's result sequence
ErrItem(e) == [t |-> "error", e |-> e]

(***************************************************************************)
(* Marshaling strategies.  A conversion returns [ok, v] or [ok, e].        *)
(***************************************************************************)
Ok(v) == [ok |-> TRUE, v |-> v]
Fail(e) == [ok |-> FALSE, e |-> e]

\* the first failure among the converted elements, if any
FirstFail(rs) ==
    LET bad == {i \in 1..Len(rs) : ~rs[i].ok}
    IN  IF bad = {} THEN 0 ELSE CHOOSE i \in bad : \A j \in bad : i <= j

\* convertToJQCompatible that turns an int into a float64 like the other integer types
RECURSIVE convertToJQCompatible_intAsFloat(_)
convertToJQCompatible_intAsFloat(v) ==
    CASE v.t \in {"nil", "bool", "string", "float64", "big.Int"} -> Ok(v)
      [] v.t = "array" ->
            LET rs == [i \in 1..Len(v.a) |-> convertToJQCompatible_intAsFloat(v.a[i])]
                f == FirstFail(rs)
            IN  IF f # 0 THEN rs[f] ELSE Ok(Arr([i \in 1..Len(v.a) |-> rs[i].v]))
      [] v.t = "object" ->
            LET rs == [i \in 1..Len(v.o) |-> convertToJQCompatible_intAsFloat(v.o[i].v)]
                f == FirstFail(rs)
            IN  IF f # 0 THEN rs[f]
                ELSE Ok(Obj([i \in 1..Len(v.o) |-> [k |-> v.o[i].k, v |-> rs[i].v]]))
      [] v.t \in {"int", "int8", "int16", "int32", "int64", "uint", "uint8", "uint16",
                  "uint32", "uint64", "float32"} -> Ok(FloatV(v.n))
      [] OTHER -> Fail(ErrorsNew("unsupported type"))

RECURSIVE convertToJQCompatible(_)
convertToJQCompatible(v) ==
    CASE v.t \in {"nil", "bool", "string", "int", "float64", "big.Int"} -> Ok(v)
      [] v.t = "array" ->
            LET rs == [i \in 1..Len(v.a) |-> convertToJQCompatible(v.a[i])]
                f == FirstFail(rs)
            IN  IF f # 0 THEN rs[f] ELSE Ok(Arr([i \in 1..Len(v.a) |-> rs[i].v]))
      [] v.t = "object" ->
            LET rs == [i \in 1..Len(v.o) |-> convertToJQCompatible(v.o[i].v)]
                f == FirstFail(rs)
            IN  IF f # 0 THEN rs[f]
                ELSE Ok(Obj([i \in 1..Len(v.o) |-> [k |-> v.o[i].k, v |-> rs[i].v]]))
      [] v.t \in {"int8", "int16", "int32", "int64", "uint", "uint8", "uint16",
                  "uint32", "uint64", "float32"} -> Ok(FloatV(v.n))
      [] OTHER -> Fail(ErrorsNew("unsupported type"))

\* no value of the model carries the proto.Message method set
isProtoMessage(v) == FALSE

defaultInputMarshaler_Marshal(v) ==
    IF isProtoMessage(v) THEN Fail(ErrorsNew("protojson"))
    ELSE convertToJQCompatible(v)

Prefix == <<"P", "R", "E", "F", "I", "X", ":">>

\* encoding/json round trip of a value that is neither string, map nor list
jsonRoundTrip(v) ==
    CASE v.t \in {"nil", "bool", "float64"} -> Ok(v)
      [] v.t \in {"int", "int8", "int16", "int32", "int64", "uint", "uint8",
                  "uint16", "uint32", "uint64", "float32"} -> Ok(FloatV(v.n))
      [] v.t = "big.Int" -> Ok(Float2p64)
      [] OTHER -> Fail(ErrorsNew("json: unsupported type"))

RECURSIVE prefixMarshaler_Marshal(_)
prefixMarshaler_Marshal(v) ==
    CASE v.t = "string" -> Ok(Str(Prefix \o v.s))
      [] v.t = "object" ->
            LET rs == [i \in 1..Len(v.o) |-> prefixMarshaler_Marshal(v.o[i].v)]
                f == FirstFail(rs)
            IN  IF f # 0 THEN rs[f]
                ELSE Ok(Obj([i \in 1..Len(v.o) |-> [k |-> v.o[i].k, v |-> rs[i].v]]))
      [] v.t = "array" ->
            LET rs == [i \in 1..Len(v.a) |-> prefixMarshaler_Marshal(v.a[i])]
                f == FirstFail(rs)
            IN  IF f # 0 THEN rs[f] ELSE Ok(Arr([i \in 1..Len(v.a) |-> rs[i].v]))
      [] OTHER -> jsonRoundTrip(v)

\* protojsonMarshaler.Marshal: lists and maps element by element, everything else
\* by the default strategy.  A *big.Int is a pointer: it is followed to the big.Int
\* struct, which has no exported field and comes back as an empty map.
RECURSIVE protojsonMarshaler_Marshal(_)
protojsonMarshaler_Marshal(v) ==
    CASE v.t = "nil" -> Ok(Null)
      [] v.t = "array" ->
            LET rs == [i \in 1..Len(v.a) |-> protojsonMarshaler_Marshal(v.a[i])]
                f == FirstFail(rs)
            IN  IF f # 0 THEN rs[f] ELSE Ok(Arr([i \in 1..Len(v.a) |-> rs[i].v]))
      [] v.t = "object" ->
            LET rs == [i \in 1..Len(v.o) |-> protojsonMarshaler_Marshal(v.o[i].v)]
                f == FirstFail(rs)
            IN  IF f # 0 THEN rs[f]
                ELSE Ok(Obj([i \in 1..Len(v.o) |-> [k |-> v.o[i].k, v |-> rs[i].v]]))
      [] v.t = "big.Int" -> Ok(Obj(<<>>))
      [] OTHER -> defaultInputMarshaler_Marshal(v)

\* the strategy Execute uses: p.inputMarshaler, or the default one when it is nil
Marshal(m, v) ==
    IF m = "prefixMarshaler" THEN prefixMarshaler_Marshal(v)
    ELSE IF m = "protojsonMarshaler" THEN protojsonMarshaler_Marshal(v)
    ELSE defaultInputMarshaler_Marshal(v)

(***************************************************************************)
(* encoding/json as used by jsonEncoder: compact, or SetIndent("", "  ").  *)
(***************************************************************************)
Digits == <<"0", "1", "2", "3", "4", "5", "6", "7", "8", "9">>

RECURSIVE IntToChars(_)
IntToChars(n) ==
    IF n < 10 THEN <<Digits[n + 1]>>
    ELSE IntToChars(n \div 10) \o <<Digits[(n % 10) + 1]>>

\* the decimal digits of the number written ds, plus n
RECURSIVE AddToDigits(_, _)
AddToDigits(ds, n) ==
    IF ds = <<>> THEN (IF n = 0 THEN <<>> ELSE IntToChars(n))
    ELSE LET last == CHOOSE i \in 0..9 : Digits[i + 1] = ds[Len(ds)]
             sum == last + n
         IN  AddToDigits(SubSeq(ds, 1, Len(ds) - 1), sum \div 10) \o <<Digits[(sum % 10) + 1]>>

\* (*big.Int).MarshalJSON: the decimal digits of 2^64 + n
bigIntText(n) ==
    AddToDigits(<<"1", "8", "4", "4", "6", "7", "4", "4", "0", "7",
                  "3", "7", "0", "9", "5", "5", "1", "6", "1", "6">>, n)

EscapeChar(c) ==
    CASE c = "\"" -> <<"\\", "\"">>
      [] c = "\\" -> <<"\\", "\\">>
      [] c = "\n" -> <<"\\", "n">>
      [] OTHER -> <<c>>

RECURSIVE EscapeString(_)
EscapeString(s) ==
    IF s = <<>> THEN <<>> ELSE EscapeChar(Head(s)) \o EscapeString(Tail(s))

Quote(s) == <<"\"">> \o EscapeString(s) \o <<"\"">>

RECURSIVE Spaces(_)
Spaces(n) == IF n = 0 THEN <<>> ELSE <<" ">> \o Spaces(n - 1)

\* a line break followed by the indentation of nesting depth d
NewlineIndent(pretty, d) == IF pretty THEN <<"\n">> \o Spaces(2 * d) ELSE <<>>

RECURSIVE jsonMarshal(_, _, _)
RECURSIVE jsonElems(_, _, _, _)
RECURSIVE jsonMembers(_, _, _, _)

\* elements i..Len(a) of a list, separated by commas
jsonElems(a, i, pretty, d) ==
    IF i > Len(a) THEN <<>>
    ELSE (IF i > 1 THEN <<",">> ELSE <<>>) \o NewlineIndent(pretty, d)
         \o jsonMarshal(a[i], pretty, d) \o jsonElems(a, i + 1, pretty, d)

\* members i..Len(o) of an object, separated by commas
jsonMembers(o, i, pretty, d) ==
    IF i > Len(o) THEN <<>>
    ELSE (IF i > 1 THEN <<",">> ELSE <<>>) \o NewlineIndent(pretty, d)
         \o Quote(<<o[i].k>>) \o <<":">> \o (IF pretty THEN <<" ">> ELSE <<>>)
         \o jsonMarshal(o[i].v, pretty, d) \o jsonMembers(o, i + 1, pretty, d)

jsonMarshal(v, pretty, d) ==
    CASE v.t = "string" -> Quote(v.s)
      [] v.t = "int" -> IntToChars(v.n)
      [] v.t = "float64" ->
            \* float64(2^64) is written by its shortest digits, without exponent
            IF v.hi = 1
            THEN <<"1", "8", "4", "4", "6", "7", "4", "4", "0", "7",
                   "3", "7", "0", "9", "5", "5", "2", "0", "0", "0">>
            ELSE IntToChars(v.n)
      [] v.t = "big.Int" -> bigIntText(v.n)
      [] v.t = "bool" -> IF v.bool THEN <<"t", "r", "u", "e">> ELSE <<"f", "a", "l", "s", "e">>
      [] v.t = "nil" -> <<"n", "u", "l", "l">>
      [] v.t = "array" ->
            IF v.a = <<>> THEN <<"[", "]">>
            ELSE <<"[">> \o jsonElems(v.a, 1, pretty, d + 1)
                 \o NewlineIndent(pretty, d) \o <<"]">>
      [] v.t = "object" ->
            IF v.o = <<>> THEN <<"{", "}">>
            ELSE <<"{">> \o jsonMembers(v.o, 1, pretty, d + 1)
                 \o NewlineIndent(pretty, d) \o <<"}">>

\* what json.Encoder.Encode hands to the writer in one Write: the text and a newline
json_Encoder_Encode(v, pretty) == jsonMarshal(v, pretty, 0) \o <<"\n">>

(***************************************************************************)
(* The built-in encoders.  A Write that reached the writer is [b |-> the   *)
(* bytes]; a document produced by the YAML library is [doc |-> the value]. *)
(* failAt is the index of the Write of this Encode call that the writer    *)
(* rejects (0: none); a rejected Write leaves nothing in the writer.       *)
(***************************************************************************)
WriteErr == ErrorsNew("write failed")
Separator == <<"-", "-", "-", "\n">>

NoEncoder ==
    [kind |-> "nil", pretty |-> FALSE, raw |-> FALSE, needNewline |-> FALSE, documentCount |-> 0,
     options |-> <<>>]

newJSONEncoder(pretty, raw) ==
    [kind |-> "json", pretty |-> pretty, raw |-> raw, needNewline |-> FALSE, documentCount |-> 0,
     options |-> <<>>]

\* newYAMLEncoderWrapper that starts with one document counted
newYAMLEncoderWrapper_counted ==
    [kind |-> "yaml", pretty |-> FALSE, raw |-> FALSE, needNewline |-> FALSE, documentCount |-> 1,
     options |-> <<>>]

newYAMLEncoderWrapper ==
    [kind |-> "yaml", pretty |-> FALSE, raw |-> FALSE, needNewline |-> FALSE, documentCount |-> 0,
     options |-> <<>>]

customEncoder ==
    [kind |-> "custom", pretty |-> FALSE, raw |-> FALSE, needNewline |-> FALSE, documentCount |-> 0,
     options |-> <<>>]

\* jsonEncoder_Writes that indents non-strings in raw mode when pretty is set
jsonEncoder_Writes_prettyRaw(e, v) ==
    (IF e.needNewline THEN <<[b |-> <<"\n">>]>> ELSE <<>>)
    \o (IF e.raw /\ v.t = "string"
        THEN <<[b |-> v.s], [b |-> <<"\n">>]>>
        ELSE <<[b |-> json_Encoder_Encode(v, e.pretty)]>>)

\* the Writes jsonEncoder.Encode issues for v when none of them fails
jsonEncoder_Writes(e, v) ==
    (IF e.needNewline THEN <<[b |-> <<"\n">>]>> ELSE <<>>)
    \o (IF e.raw /\ v.t = "string"
        THEN <<[b |-> v.s], [b |-> <<"\n">>]>>
        ELSE <<[b |-> json_Encoder_Encode(v, e.pretty /\ ~e.raw)]>>)

\* jsonEncoder_Encode that asks for a line break in front of the next item
jsonEncoder_Encode_blank(e, v, failAt) ==
    LET planned == jsonEncoder_Writes(e, v)
        failed == failAt \in 1..Len(planned)
    IN  [writes |-> IF failed THEN SubSeq(planned, 1, failAt - 1) ELSE planned,
         rerr |-> IF failed THEN WriteErr ELSE NilErr,
         enc |-> [e EXCEPT !.needNewline = ~failed]]

jsonEncoder_Encode(e, v, failAt) ==
    LET planned == jsonEncoder_Writes(e, v)
        failed == failAt \in 1..Len(planned)
        lead == IF e.needNewline THEN 1 ELSE 0
    IN  [writes |-> IF failed THEN SubSeq(planned, 1, failAt - 1) ELSE planned,
         rerr |-> IF failed THEN WriteErr ELSE NilErr,
         enc |-> IF failed /\ (failAt <= lead \/ (e.raw /\ v.t = "string"))
                 THEN e ELSE [e EXCEPT !.needNewline = FALSE]]

yamlEncoderWrapper_SetOptions(e, opts) == [e EXCEPT !.options = e.options \o opts]

\* yamlEncoderWrapper_Writes with a separator in front of every document
yamlEncoderWrapper_Writes_always(e, v) ==
    (IF e.documentCount >= 0 THEN <<[b |-> Separator]>> ELSE <<>>) \o <<[doc |-> v]>>

\* the Writes yamlEncoderWrapper.Encode issues for v when none of them fails
yamlEncoderWrapper_Writes(e, v) ==
    (IF e.documentCount > 0 THEN <<[b |-> Separator]>> ELSE <<>>) \o <<[doc |-> v]>>

yamlEncoderWrapper_Encode(e, v, failAt) ==
    LET planned == yamlEncoderWrapper_Writes(e, v)
        failed == failAt \in 1..Len(planned)
    IN  [writes |-> IF failed THEN SubSeq(planned, 1, failAt - 1) ELSE planned,
         rerr |-> IF failed THEN WriteErr ELSE NilErr,
         enc |-> IF failed /\ e.documentCount > 0 /\ failAt = 1
                 THEN e ELSE [e EXCEPT !.documentCount = e.documentCount + 1]]

(***************************************************************************)
(* The query engine (gojq), as far as the pipeline relies on it.           *)
(***************************************************************************)
Queries == {"", ".", ".[]", ".[] | .k", "$x", ".["}

\* a query that yields results without end
Endless == "while(true; .+1)"

\* gojq.Parse succeeds
ParseOK(q) == q \in {".", ".[]", ".[] | .k", "$x", Endless}
ParseErr == ErrorsNew("unexpected token")

\* the variables a query refers to
QueryVars(q) == IF q = "$x" THEN {<<"$", "x">>} ELSE {}

\* gojq.Compile succeeds when every variable the query uses is declared
CompileOK(q, varNames) ==
    \A n \in QueryVars(q) : \E i \in 1..Len(varNames) : varNames[i] = n
CompileErr == ErrorsNew("variable not defined")

\* .[] : the elements of a list, the values of an object, an error otherwise
Iterate(v) ==
    CASE v.t = "array" -> v.a
      [] v.t = "object" -> [i \in 1..Len(v.o) |-> v.o[i].v]
      [] OTHER -> <<ErrItem(ErrorsNew("cannot iterate"))>>

\* .k : the member k of an object, null on null, an error otherwise
IndexK(v) ==
    CASE v.t = "error" -> v
      [] v.t = "nil" -> Null
      [] v.t = "object" ->
            IF \E i \in 1..Len(v.o) : v.o[i].k = "k"
            THEN v.o[CHOOSE i \in 1..Len(v.o) : v.o[i].k = "k"].v
            ELSE Null
      [] OTHER -> ErrItem(ErrorsNew("expected an object"))

\* .+1 : the next number, 1 on null, an error otherwise
Plus1(v) ==
    CASE v.t \in {"int", "big.Int"} -> [v EXCEPT !.n = v.n + 1]
      [] v.t = "float64" -> IF v.hi = 1 THEN v ELSE [v EXCEPT !.n = v.n + 1]
      [] v.t = "nil" -> IntV(1)
      [] OTHER -> ErrItem(ErrorsNew("cannot be added"))

\* the result sequence of Code.RunWithContext when the context stays live; of a
\* query without end, the first result
Run(q, data, varNames, varValues) ==
    CASE q = "." -> <<data>>
      [] q = Endless -> <<data>>
      [] q = ".[]" -> Iterate(data)
      [] q = ".[] | .k" -> LET xs == Iterate(data) IN [i \in 1..Len(xs) |-> IndexK(xs[i])]
      [] q = "$x" -> <<varValues[CHOOSE i \in 1..Len(varNames) : varNames[i] = <<"$", "x">>]>>

\* ctx.Err() of a context that is done
CtxErr(c) == IF c = "canceled" THEN Canceled ELSE DeadlineExceeded

(***************************************************************************)
(* Construction options and New.                                           *)
(***************************************************************************)
JSONStyleCompact == 0
JSONStylePretty == 2
JSONStyleRaw == 4

\* A slice is the elements it holds and the rest of its backing array, which any
\* other slice over the same array shares.
NilSlice == [elems |-> <<>>, spare |-> <<>>]

\* the capacity append allocates when old is too small for needed elements
growslice(old, needed) == IF needed > 2 * old THEN needed ELSE 2 * old

\* append(s, xs...): the slice returned and what s has become; the elements are
\* written into the backing array of s when they fit, else into a new array
GoAppend(s, xs) ==
    IF Len(xs) <= Len(s.spare)
    THEN [slice |-> [elems |-> s.elems \o xs,
                     spare |-> SubSeq(s.spare, Len(xs) + 1, Len(s.spare))],
          base |-> [elems |-> s.elems,
                    spare |-> xs \o SubSeq(s.spare, Len(xs) + 1, Len(s.spare))]]
    ELSE LET cap == growslice(Len(s.elems) + Len(s.spare), Len(s.elems) + Len(xs))
         IN  [slice |-> [elems |-> s.elems \o xs,
                         spare |-> [i \in 1..(cap - Len(s.elems) - Len(xs)) |-> "nil"]],
              base |-> s]

NilPipeline == [ptr |-> "nil"]
EmptyPipeline ==
    [ptr |-> "pipeline", query |-> "", defaultEncodeOptions |-> NilSlice,
     compilerOptions |-> NilSlice, inputMarshaler |-> "nil",
     defaultJSONStyle |-> JSONStyleCompact]

WithQuery(q) == [opt |-> "WithQuery", query |-> q]
WithDefaultEncodeOptions(opts) == [opt |-> "WithDefaultEncodeOptions", opts |-> opts]
WithCompilerOptions(opts) == [opt |-> "WithCompilerOptions", opts |-> opts]
WithInputMarshaler(m) == [opt |-> "WithInputMarshaler", marshaler |-> m]
\* the protojson options act on proto messages only, of which the model has none
WithProtojsonInput == WithInputMarshaler("protojsonMarshaler")
WithProtojsonInputOptions(opts) == WithInputMarshaler("protojsonMarshaler")

Options ==
    {WithQuery(q) : q \in Queries}
    \cup {WithInputMarshaler(m) : m \in {"nil", "prefixMarshaler"}}
    \cup {WithProtojsonInput, WithProtojsonInputOptions("UseProtoNames")}

\* the error an Option returns on the pipeline q
OptionErr(q, o) ==
    IF o.opt = "WithInputMarshaler" /\ o.marshaler = "nil"
    THEN ErrorsNew("input marshaler cannot be nil")
    ELSE NilErr

\* the pipeline an Option leaves behind when it succeeds
ApplyOption(q, o) ==
    CASE o.opt = "WithQuery" -> [q EXCEPT !.query = o.query]
      [] o.opt = "WithDefaultEncodeOptions" ->
            [q EXCEPT !.defaultEncodeOptions = GoAppend(q.defaultEncodeOptions, o.opts).slice]
      [] o.opt = "WithCompilerOptions" ->
            [q EXCEPT !.compilerOptions = GoAppend(q.compilerOptions, o.opts).slice]
      [] o.opt = "WithInputMarshaler" -> [q EXCEPT !.inputMarshaler = o.marshaler]

\* ApplyOptions that goes on after a failed option and reports the first error
RECURSIVE ApplyOptions_all(_, _, _)
ApplyOptions_all(q, opts, i) ==
    IF i > Len(opts) THEN [p |-> q, rerr |-> NilErr, n |-> i - 1]
    ELSE IF OptionErr(q, opts[i]) # NilErr
         THEN [p |-> q, rerr |-> OptionErr(q, opts[i]), n |-> ApplyOptions_all(q, opts, i + 1).n]
         ELSE ApplyOptions_all(ApplyOption(q, opts[i]), opts, i + 1)

\* the loop of New over opts[i..]: the pipeline, the error and the options applied
RECURSIVE ApplyOptions(_, _, _)
ApplyOptions(q, opts, i) ==
    IF i > Len(opts) THEN [p |-> q, rerr |-> NilErr, n |-> i - 1]
    ELSE IF OptionErr(q, opts[i]) # NilErr
         THEN [p |-> q, rerr |-> OptionErr(q, opts[i]), n |-> i - 1]
         ELSE ApplyOptions(ApplyOption(q, opts[i]), opts, i + 1)

\* the (Pipeline, error) pair New returns, with the number of options applied
NewResult(opts) ==
    LET r == ApplyOptions(EmptyPipeline, opts, 1)
    IN  IF r.rerr # NilErr THEN [p |-> NilPipeline, rerr |-> r.rerr, n |-> r.n]
        ELSE IF r.p.query # "" /\ ~ParseOK(r.p.query)
             THEN [p |-> NilPipeline,
                   rerr |-> QueryError(r.p.query, "failed to parse query", ParseErr),
                   n |-> r.n]
             ELSE [p |-> r.p, rerr |-> NilErr, n |-> r.n]

(***************************************************************************)
(* Execute options and executeConfig.                                      *)
(***************************************************************************)
DefaultTimeout == 30

VarX == {[name |-> <<"x">>, val |-> IntV(3)]}

WithEncoder(e) == [opt |-> "WithEncoder", encoder |-> e]
WithWriter(w, f) == [opt |-> "WithWriter", writer |-> w, format |-> f]
WithVariables(vs) == [opt |-> "WithVariables", variables |-> vs]
WithTimeout(d) == [opt |-> "WithTimeout", timeout |-> d]
WithEncodeOptions(opts) == [opt |-> "WithEncodeOptions", opts |-> opts]
WithCallback(cb) == [opt |-> "WithCallback", callback |-> cb]
WithCompactJSONOutput == [opt |-> "WithCompactJSONOutput"]
WithPrettyJSONOutput == [opt |-> "WithPrettyJSONOutput"]
WithRawJSONOutput == [opt |-> "WithRawJSONOutput"]

StyleOptions == {WithCompactJSONOutput, WithPrettyJSONOutput, WithRawJSONOutput}

ExecuteOptions ==
    {WithWriter("buf", "json"), WithWriter("buf", "yaml"),
     WithEncoder("custom"), WithCallback("cb"),
     WithVariables(VarX), WithTimeout(0), WithTimeout(5)}
    \cup StyleOptions

\* InitialConfig that leaves the pipeline's default JSON style out
InitialConfig_noDefault(q) ==
    [encoder |-> "nil", writer |-> "nil", format |-> "", callback |-> "nil",
     variables |-> {}, timeout |-> DefaultTimeout, encodeOptions |-> <<>>,
     compactOutputSet |-> FALSE, compactOutput |-> FALSE, rawOutput |-> FALSE]

\* the executeConfig Execute starts from, pipeline defaults included
InitialConfig(q) ==
    LET c == [encoder |-> "nil", writer |-> "nil", format |-> "", callback |-> "nil",
              variables |-> {}, timeout |-> DefaultTimeout, encodeOptions |-> <<>>,
              compactOutputSet |-> FALSE, compactOutput |-> FALSE, rawOutput |-> FALSE]
    IN  IF q.defaultJSONStyle # 0 /\ ~c.compactOutputSet /\ ~c.rawOutput
        THEN [c EXCEPT !.rawOutput = (q.defaultJSONStyle \div JSONStyleRaw) % 2 = 1,
                       !.compactOutput = (q.defaultJSONStyle \div JSONStylePretty) % 2 = 0,
                       !.compactOutputSet = TRUE]
        ELSE c

WithCompactJSONOutput_apply(c) ==
    [c EXCEPT !.compactOutputSet = TRUE, !.compactOutput = TRUE]

\* WithPrettyJSONOutput that leaves an explicit compact setting alone
WithPrettyJSONOutput_sticky(c) ==
    IF c.compactOutputSet /\ c.compactOutput THEN c
    ELSE [c EXCEPT !.compactOutputSet = TRUE, !.compactOutput = FALSE]

WithPrettyJSONOutput_apply(c) ==
    [c EXCEPT !.compactOutputSet = TRUE, !.compactOutput = FALSE]

WithRawJSONOutput_apply(c) ==
    [c EXCEPT !.rawOutput = TRUE]

\* opt(cfg) for one ExecuteOption
ApplyExecuteOption(c, o) ==
    CASE o.opt = "WithEncoder" -> [c EXCEPT !.encoder = o.encoder]
      [] o.opt = "WithWriter" -> [c EXCEPT !.writer = o.writer, !.format = o.format]
      [] o.opt = "WithVariables" -> [c EXCEPT !.variables = o.variables]
      [] o.opt = "WithTimeout" -> [c EXCEPT !.timeout = o.timeout]
      [] o.opt = "WithEncodeOptions" -> [c EXCEPT !.encodeOptions = c.encodeOptions \o o.opts]
      [] o.opt = "WithCallback" -> [c EXCEPT !.callback = o.callback]
      [] o.opt = "WithCompactJSONOutput" -> WithCompactJSONOutput_apply(c)
      [] o.opt = "WithPrettyJSONOutput" -> WithPrettyJSONOutput_apply(c)
      [] o.opt = "WithRawJSONOutput" -> WithRawJSONOutput_apply(c)

\* ResolveEncoder that writes raw strings as the JSON encoder does whatever the format
ResolveEncoder_styled(c) ==
    IF c.writer # "nil" /\ c.encoder = "nil"
    THEN IF c.format = "json" \/ c.rawOutput
         THEN newJSONEncoder(~c.compactOutput /\ c.compactOutputSet, c.rawOutput)
         ELSE newYAMLEncoderWrapper
    ELSE IF c.encoder = "nil" THEN NoEncoder ELSE customEncoder

\* the encoder Execute runs with: the one given, or the built-in one for the writer
ResolveEncoder(c) ==
    IF c.writer # "nil" /\ c.encoder = "nil"
    THEN IF c.format = "json"
         THEN newJSONEncoder(~c.compactOutput /\ c.compactOutputSet, c.rawOutput)
         ELSE newYAMLEncoderWrapper
    ELSE IF c.encoder = "nil" THEN NoEncoder ELSE customEncoder

\* SinkErr without the check for two output modes
SinkErr_lax(e, c) ==
    IF e.kind = "nil" /\ c.callback = "nil"
    THEN ErrorsNew("no output method specified: use WithWriter, WithEncoder, or WithCallback")
    ELSE NilErr

\* the configuration error of Execute, NilErr when the sink is well configured
SinkErr(e, c) ==
    IF e.kind = "nil" /\ c.callback = "nil"
    THEN ErrorsNew("no output method specified: use WithWriter, WithEncoder, or WithCallback")
    ELSE IF e.kind # "nil" /\ c.callback # "nil"
         THEN ErrorsNew("cannot specify both encoder and callback")
         ELSE NilErr

\* deadlineDerived that bounds the run whatever the timeout
deadlineDerived_always(c) == TRUE

\* deadlineDerived that never bounds the run
deadlineDerived_never(c) == FALSE

\* Execute derives a deadline-bound context from the caller's
deadlineDerived(c) == c.timeout > 0

\* combineEncodeOptions that appends to the pipeline's slice itself
combineEncodeOptions_inPlace(q, c) ==
    LET r == GoAppend(q.defaultEncodeOptions, c.encodeOptions)
    IN  [all |-> r.slice.elems, p |-> [q EXCEPT !.defaultEncodeOptions = r.base]]

\* the encode options of the call, the pipeline's defaults first, built in a
\* slice of the call's own; p is the pipeline as the statement leaves it
combineEncodeOptions(q, c) ==
    LET own == GoAppend(NilSlice, q.defaultEncodeOptions.elems).slice
        r == GoAppend(own, c.encodeOptions)
    IN  [all |-> r.slice.elems, p |-> q]

\* compileOptions that appends to the pipeline's slice itself
compileOptions_inPlace(q, varNames) ==
    LET r == GoAppend(q.compilerOptions, IF varNames # <<>> THEN <<"WithVariables">> ELSE <<>>)
    IN  [opts |-> r.slice.elems, p |-> [q EXCEPT !.compilerOptions = r.base]]

\* the compiler options of the call, the pipeline's first and the variable names
\* last, built in a slice of the call's own; p is the pipeline afterwards
compileOptions(q, varNames) ==
    LET own == GoAppend(NilSlice, q.compilerOptions.elems).slice
        r == GoAppend(own, IF varNames # <<>> THEN <<"WithVariables">> ELSE <<>>)
    IN  [opts |-> r.slice.elems, p |-> q]

\* inputConversionError that returns the strategy's error as it is
inputConversionError_bare(in, e) == e

\* the error of Execute when the strategy fails on the input with e
inputConversionError(in, e) == ConversionError(in, <<"jq-compatible">>, e)

(***************************************************************************)
(* Variables.                                                              *)
(***************************************************************************)
\* the enumerations of a map: every order range may visit its entries in
Orders(S) ==
    {s \in [1..Cardinality(S) -> S] : \A i, j \in 1..Cardinality(S) : s[i] = s[j] => i = j}

\* convertVariables that labels a failure as one of the input
convertVariables_inputLabel(variables, m, order) ==
    IF variables = {} THEN [ok |-> TRUE, vars |-> {}, calls |-> <<>>]
    ELSE LET rs == [i \in 1..Len(order) |-> Marshal(m, order[i].val)]
             f == FirstFail(rs)
         IN  IF f # 0
             THEN [ok |-> FALSE,
                   e |-> ConversionError(order[f].val, <<"jq-compatible">>, rs[f].e),
                   calls |-> [i \in 1..f |-> order[i].val]]
             ELSE [ok |-> TRUE,
                   vars |-> {[name |-> order[i].name, val |-> rs[i].v] : i \in 1..Len(order)},
                   calls |-> [i \in 1..Len(order) |-> order[i].val]]

\* convertVariables that converts with the default normalizer whatever the strategy
convertVariables_default(variables, m, order) ==
    IF variables = {} THEN [ok |-> TRUE, vars |-> {}, calls |-> <<>>]
    ELSE LET rs == [i \in 1..Len(order) |-> defaultInputMarshaler_Marshal(order[i].val)]
             f == FirstFail(rs)
         IN  IF f # 0
             THEN [ok |-> FALSE,
                   e |-> ConversionError(order[f].val, <<"variable ">> \o order[f].name, rs[f].e),
                   calls |-> [i \in 1..f |-> order[i].val]]
             ELSE [ok |-> TRUE,
                   vars |-> {[name |-> order[i].name, val |-> rs[i].v] : i \in 1..Len(order)},
                   calls |-> [i \in 1..Len(order) |-> order[i].val]]

\* convertVariables when range visits the entries in the given order
convertVariables(variables, m, order) ==
    IF variables = {} THEN [ok |-> TRUE, vars |-> {}, calls |-> <<>>]
    ELSE LET rs == [i \in 1..Len(order) |-> Marshal(m, order[i].val)]
             f == FirstFail(rs)
         IN  IF f # 0
             THEN [ok |-> FALSE,
                   e |-> ConversionError(order[f].val, <<"variable ">> \o order[f].name, rs[f].e),
                   calls |-> [i \in 1..f |-> order[i].val]]
             ELSE [ok |-> TRUE,
                   vars |-> {[name |-> order[i].name, val |-> rs[i].v] : i \in 1..Len(order)},
                   calls |-> [i \in 1..Len(order) |-> order[i].val]]

CharCode(c) == CASE c = "$" -> 36 [] c = "x" -> 120 [] c = "y" -> 121 [] OTHER -> 0

\* byte-wise lexicographic order of Go strings
RECURSIVE StringLess(_, _)
StringLess(a, b) ==
    IF b = <<>> THEN FALSE
    ELSE IF a = <<>> THEN TRUE
    ELSE IF CharCode(Head(a)) # CharCode(Head(b)) THEN CharCode(Head(a)) < CharCode(Head(b))
    ELSE StringLess(Tail(a), Tail(b))

\* x put into the sorted list s
RECURSIVE Insert(_, _)
Insert(x, s) ==
    IF s = <<>> THEN <<x>>
    ELSE IF StringLess(x, Head(s)) THEN <<x>> \o s
    ELSE <<Head(s)>> \o Insert(x, Tail(s))

\* sort.Strings
RECURSIVE SortStrings(_)
SortStrings(s) == IF s = <<>> THEN <<>> ELSE Insert(Head(s), SortStrings(Tail(s)))

\* SortedVarNames that leaves the names in the order range visited them
SortedVarNames_unsorted(keyOrder) ==
    [i \in 1..Len(keyOrder) |-> <<"$">> \o keyOrder[i]]

\* the "$"-prefixed keys of the map, collected in the order range visits them, sorted
SortedVarNames(keyOrder) ==
    SortStrings([i \in 1..Len(keyOrder) |-> <<"$">> \o keyOrder[i]])

\* the iterator runQueryWithVariables returns, with the names it compiled against
\* and the values it ran with; range visits the keys of the map in keyOrder
runQueryWithVariables(q, data, variables, keyOrder) ==
    LET varNames == SortedVarNames(keyOrder)
        varValues == [i \in 1..Len(varNames) |->
                        (CHOOSE e \in variables : e.name = Tail(varNames[i])).val]
    IN  IF ~CompileOK(q.query, varNames)
        THEN [kind |-> "errorIter",
              items |-> <<ErrItem(QueryError(q.query, "failed to compile query", CompileErr))>>,
              endless |-> FALSE, names |-> varNames, values |-> varValues]
        ELSE [kind |-> "code", items |-> Run(q.query, data, varNames, varValues),
              endless |-> q.query = Endless, names |-> varNames, values |-> varValues]

NoIter == [kind |-> "nil", items |-> <<>>, endless |-> FALSE, names |-> <<>>, values |-> <<>>]

(***************************************************************************)
(* streamingProcess, as operators over the values it handles.              *)
(***************************************************************************)
\* streamingProcess_start that converts the variables before it looks at the query
streamingProcess_start_varsFirst(q, data, variables, m, order, keyOrder) ==
    LET cv == convertVariables(variables, m, order)
    IN  IF ~cv.ok
        THEN [do |-> "return", calls |-> cv.calls, e |-> cv.e]
        ELSE IF q.query = ""
             THEN [do |-> "deliver", calls |-> cv.calls, cur |-> data]
             ELSE [do |-> "next", calls |-> cv.calls,
                   it |-> runQueryWithVariables(q, data, cv.vars, keyOrder)]

\* streamingProcess_start that compiles the query before it converts the variables
streamingProcess_start_compileFirst(q, data, variables, m, order, keyOrder) ==
    IF q.query = ""
    THEN [do |-> "deliver", calls |-> <<>>, cur |-> data]
    ELSE IF ~CompileOK(q.query, SortedVarNames(keyOrder))
    THEN [do |-> "next", calls |-> <<>>,
          it |-> [kind |-> "errorIter",
                  items |-> <<ErrItem(QueryError(q.query, "failed to compile query", CompileErr))>>,
                  endless |-> FALSE, names |-> SortedVarNames(keyOrder), values |-> <<>>]]
    ELSE LET cv == convertVariables(variables, m, order)
         IN  IF ~cv.ok
             THEN [do |-> "return", calls |-> cv.calls, e |-> cv.e]
             ELSE [do |-> "next", calls |-> cv.calls,
                   it |-> runQueryWithVariables(q, data, cv.vars, keyOrder)]

\* streamingProcess_start that runs the identity query when there is none
streamingProcess_start_identity(q, data, variables, m, order, keyOrder) ==
    IF q.query = ""
    THEN [do |-> "next", calls |-> <<>>,
          it |-> [kind |-> "code", items |-> <<data>>, endless |-> FALSE,
                  names |-> <<>>, values |-> <<>>]]
    ELSE LET cv == convertVariables(variables, m, order)
         IN  IF ~cv.ok
             THEN [do |-> "return", calls |-> cv.calls, e |-> cv.e]
             ELSE [do |-> "next", calls |-> cv.calls,
                   it |-> runQueryWithVariables(q, data, cv.vars, keyOrder)]

\* streamingProcess before its loop: what it does next (do), the values it handed
\* to the marshaler (calls), and the item, error or iterator it goes on with
streamingProcess_start(q, data, variables, m, order, keyOrder) ==
    IF q.query = ""
    THEN [do |-> "deliver", calls |-> <<>>, cur |-> data]
    ELSE LET cv == convertVariables(variables, m, order)
         IN  IF ~cv.ok
             THEN [do |-> "return", calls |-> cv.calls, e |-> cv.e]
             ELSE [do |-> "next", calls |-> cv.calls,
                   it |-> runQueryWithVariables(q, data, cv.vars, keyOrder)]

\* isError that takes every item for a result
isError_never(v) == FALSE

\* v.(error): the item is an error surfaced by the engine
isError(v) == v.t = "error"

\* streamError that takes every context error for a timeout
streamError_anyCtx(q, timeout, e) ==
    IF e \in {DeadlineExceeded, Canceled} THEN TimeoutError(timeout)
    ELSE QueryError(q.query, "execution error", e)

\* the error streamingProcess returns for the engine's error e
streamError(q, timeout, e) ==
    IF e = DeadlineExceeded THEN TimeoutError(timeout)
    ELSE QueryError(q.query, "execution error", e)

\* callbackReturns that goes on after a failed callback
callbackReturns_ignore(q, rerr) == q.query = ""

\* streamingProcess returns right after a callback that returned rerr
callbackReturns(q, rerr) == rerr # NilErr \/ q.query = ""

\* what iter.Next returns: [ok, v] and the iterator left behind; a query without
\* end has its next result ready as long as the last one was a number
IterNext(it, c) ==
    IF it.kind = "code" /\ c # "active"
    THEN [ok |-> TRUE, v |-> ErrItem(CtxErr(c)), it |-> [it EXCEPT !.items = <<>>]]
    ELSE IF it.items = <<>>
         THEN [ok |-> FALSE, v |-> Null, it |-> it]
         ELSE IF it.endless
         THEN [ok |-> TRUE, v |-> Head(it.items),
               it |-> [it EXCEPT !.items = <<Plus1(Head(it.items))>>,
                                 !.endless = ~isError(Plus1(Head(it.items)))]]
         ELSE [ok |-> TRUE, v |-> Head(it.items), it |-> [it EXCEPT !.items = Tail(it.items)]]

CallbackErr == ErrorsNew("callback error")
EncoderErr == ErrorsNew("encoder error")

\* what callback(v) does: [writes, rerr, enc]; fail selects the outcome of the sink
Callback(c, e, v, fail) ==
    CASE c.callback # "nil" ->
            [writes |-> <<>>, rerr |-> IF fail = 0 THEN NilErr ELSE CallbackErr, enc |-> e]
      [] e.kind = "custom" ->
            [writes |-> <<>>, rerr |-> IF fail = 0 THEN NilErr ELSE EncoderErr, enc |-> e]
      [] e.kind = "json" -> jsonEncoder_Encode(e, v, fail)
      [] e.kind = "yaml" -> yamlEncoderWrapper_Encode(e, v, fail)

\* the outcomes the sink can choose between for v
Failures(c, e, v) ==
    CASE c.callback # "nil" -> 0..1
      [] e.kind = "custom" -> 0..1
      [] e.kind = "json" -> 0..Len(jsonEncoder_Writes(e, v))
      [] e.kind = "yaml" -> 0..Len(yamlEncoderWrapper_Writes(e, v))

\* s without the entries equal to x
RECURSIVE Without(_, _)
Without(s, x) ==
    IF s = <<>> THEN <<>>
    ELSE IF Head(s) = x THEN Without(Tail(s), x) ELSE <<Head(s)>> \o Without(Tail(s), x)

(***************************************************************************)
(* The state machine.                                                      *)
(***************************************************************************)
\* the call-local state of an Execute call that has not begun
IdleCall ==
    [pc |-> "idle", cfg |-> InitialConfig(EmptyPipeline), supplied |-> <<>>,
     lastTimeout |-> <<>>, input |-> Null, marshaled |-> <<>>, enc |-> NoEncoder,
     iter |-> NoIter, pulled |-> <<>>, cur |-> Null, ctx |-> "active", derived |-> FALSE,
     sink |-> <<>>, sinkRet |-> <<>>, out |-> <<>>, ret |-> NoErr]

\* the state before New, the option list of New apart
InitRest ==
    /\ pc = "init"
    /\ p = NilPipeline
    /\ newErr = NoErr
    /\ nApplied = 0
    /\ cfg = InitialConfig(EmptyPipeline)
    /\ supplied = <<>>
    /\ lastTimeout = <<>>
    /\ input = Null
    /\ marshaled = <<>>
    /\ enc = NoEncoder
    /\ iter = NoIter
    /\ pulled = <<>>
    /\ cur = Null
    /\ ctx = "active"
    /\ derived = FALSE
    /\ sink = <<>>
    /\ sinkRet = <<>>
    /\ out = <<>>
    /\ ret = NoErr
    /\ calls = <<>>
    /\ other = IdleCall

Init ==
    /\ InitRest
    /\ newOpts = <<>>

\* New(opts...)
New(opts) ==
    /\ pc = "init"
    /\ LET r == NewResult(opts)
       IN  /\ p' = r.p
           /\ newErr' = r.rerr
           /\ nApplied' = r.n
           /\ pc' = IF r.rerr = NilErr THEN "idle" ELSE "failed"
    /\ UNCHANGED <<newOpts, cfg, supplied, lastTimeout, input, marshaled, enc, iter, pulled, cur,
                   ctx, derived, sink, sinkRet, out, ret, calls, other>>

\* Execute, up to the loop over its options: the fresh executeConfig
Execute_begin ==
    /\ pc = "idle"
    /\ cfg' = InitialConfig(p)
    /\ pc' = "configuring"
    /\ calls' = Append(calls, [mark |-> Len(out), after |-> ret])
    /\ UNCHANGED <<p, newOpts, newErr, nApplied, supplied, lastTimeout, input, marshaled, enc,
                   iter, pulled, cur, ctx, derived, sink, sinkRet, out, ret, other>>

\* Execute, one turn of the loop over its options
Execute_option(o) ==
    /\ pc = "configuring"
    /\ cfg' = ApplyExecuteOption(cfg, o)
    /\ supplied' = IF o \in StyleOptions THEN Append(Without(supplied, o.opt), o.opt)
                   ELSE supplied
    /\ lastTimeout' = IF o.opt = "WithTimeout" THEN <<o.timeout>> ELSE lastTimeout
    /\ UNCHANGED <<pc, p, newOpts, newErr, nApplied, input, marshaled, enc, iter, pulled,
                   cur, ctx, derived, sink, sinkRet, out, ret, calls, other>>

\* Execute returns e
Return(e) ==
    /\ ret' = e
    /\ pc' = "returned"

\* Execute after its options: sink resolution, input conversion, and streamingProcess
\* up to its first iter.Next or, without a query, up to its callback
Execute_body(in, order, keyOrder) ==
    /\ pc = "configuring"
    /\ input' = in
    /\ LET m == p.inputMarshaler
           e == ResolveEncoder(cfg)
           combined == combineEncodeOptions(p, cfg)
           jsonData == Marshal(m, in)
       IN  IF SinkErr(e, cfg) # NilErr
           THEN /\ Return(SinkErr(e, cfg))
                /\ enc' = e
                /\ UNCHANGED <<p, marshaled, iter, cur, derived>>
           ELSE /\ derived' = deadlineDerived(cfg)
                /\ IF ~jsonData.ok
                   THEN /\ Return(inputConversionError(in, jsonData.e))
                        /\ marshaled' = <<in>>
                        /\ enc' = e
                        /\ p' = combined.p
                        /\ UNCHANGED <<iter, cur>>
                   ELSE LET names == [i \in 1..Len(keyOrder) |-> keyOrder[i].name]
                            s == streamingProcess_start(
                                    combined.p, jsonData.v, cfg.variables, m, order, names)
                        IN  /\ marshaled' = <<in>> \o s.calls
                            /\ enc' = IF cfg.callback = "nil" /\ e.kind = "yaml"
                                      THEN yamlEncoderWrapper_SetOptions(e, combined.all)
                                      ELSE e
                            /\ CASE s.do = "deliver" ->
                                        /\ pc' = "deliver"
                                        /\ cur' = s.cur
                                        /\ p' = combined.p
                                        /\ UNCHANGED <<iter, ret>>
                                 [] s.do = "return" ->
                                        /\ Return(s.e)
                                        /\ p' = combined.p
                                        /\ UNCHANGED <<iter, cur>>
                                 [] s.do = "next" ->
                                        /\ pc' = "next"
                                        /\ iter' = s.it
                                        /\ p' = compileOptions(combined.p, s.it.names).p
                                        /\ UNCHANGED <<cur, ret>>
    /\ UNCHANGED <<newOpts, newErr, nApplied, cfg, supplied, lastTimeout, pulled, ctx,
                   sink, sinkRet, out, calls, other>>

\* the context ends while Execute runs: the caller cancels, the caller's deadline
\* passes, or the deadline Execute derived from cfg.timeout passes
ContextDone(why) ==
    /\ pc \in {"next", "deliver"}
    /\ ctx = "active"
    /\ why = "timeout" => derived
    /\ ctx' = why
    /\ UNCHANGED <<pc, p, newOpts, newErr, nApplied, cfg, supplied, lastTimeout, input,
                   marshaled, enc, iter, pulled, cur, derived, sink, sinkRet, out, ret, calls, other>>

\* streamingProcess_next that pulls the following item before the callback of this one
streamingProcess_next_ahead ==
    /\ pc = "next"
    /\ (iter.endless /\ ctx = "active") => Len(pulled) < MaxPulls
    /\ LET r == IterNext(iter, ctx)
           r2 == IterNext(r.it, ctx)
       IN  IF ~r.ok
           THEN /\ Return(NilErr)
                /\ UNCHANGED <<iter, pulled, cur>>
           ELSE IF isError(r.v)
           THEN /\ Return(streamError(p, cfg.timeout, r.v.e))
                /\ iter' = r.it
                /\ pulled' = Append(pulled, r.v)
                /\ UNCHANGED cur
           ELSE /\ iter' = r2.it
                /\ pulled' = IF r2.ok THEN pulled \o <<r.v, r2.v>> ELSE Append(pulled, r.v)
                /\ cur' = r.v
                /\ pc' = "deliver"
                /\ UNCHANGED ret
    /\ UNCHANGED <<p, newOpts, newErr, nApplied, cfg, supplied, lastTimeout, input, marshaled, enc,
                   ctx, derived, sink, sinkRet, out, calls, other>>

\* streamingProcess, one turn of the loop up to the callback; a query without end
\* is followed for MaxPulls items while the context is live
streamingProcess_next ==
    /\ pc = "next"
    /\ (iter.endless /\ ctx = "active") => Len(pulled) < MaxPulls
    /\ LET r == IterNext(iter, ctx)
       IN  /\ iter' = r.it
           /\ IF ~r.ok
              THEN /\ Return(NilErr)
                   /\ UNCHANGED <<pulled, cur>>
              ELSE /\ pulled' = Append(pulled, r.v)
                   /\ IF isError(r.v)
                      THEN /\ Return(streamError(p, cfg.timeout, r.v.e))
                           /\ UNCHANGED cur
                      ELSE /\ cur' = r.v
                           /\ pc' = "deliver"
                           /\ UNCHANGED ret
    /\ UNCHANGED <<p, newOpts, newErr, nApplied, cfg, supplied, lastTimeout, input, marshaled, enc,
                   ctx, derived, sink, sinkRet, out, calls, other>>

\* streamingProcess, the callback of the item just pulled
streamingProcess_callback(fail) ==
    /\ pc = "deliver"
    /\ fail \in Failures(cfg, enc, cur)
    /\ LET r == Callback(cfg, enc, cur, fail)
       IN  /\ sink' = Append(sink, cur)
           /\ sinkRet' = Append(sinkRet, r.rerr)
           /\ out' = out \o r.writes
           /\ enc' = r.enc
           /\ IF callbackReturns(p, r.rerr)
              THEN Return(r.rerr)
              ELSE /\ pc' = "next"
                   /\ UNCHANGED ret
    /\ UNCHANGED <<p, newOpts, newErr, nApplied, cfg, supplied, lastTimeout, input, marshaled,
                   iter, pulled, cur, ctx, derived, calls, other>>

Next ==
    \/ pc = "init" /\ \E opts \in SeqsUpTo(Options, MaxNewOpts) : New(opts)
    \/ Execute_begin
    \/ pc = "configuring" /\ \E o \in ExecuteOptions : Execute_option(o)
    \/ pc = "configuring" /\ \E in \in Inputs, order, keyOrder \in Orders(cfg.variables) :
                                Execute_body(in, order, keyOrder)
    \/ \E why \in {"canceled", "deadline", "timeout"} : ContextDone(why)
    \/ streamingProcess_next
    \/ pc = "deliver" /\ \E fail \in Failures(cfg, enc, cur) : streamingProcess_callback(fail)

Spec == Init /\ [][Next]_vars

(***************************************************************************)
(* New on its own: the option list is drawn first, then New runs on it.    *)
(***************************************************************************)
InitNew ==
    /\ InitRest
    /\ newOpts \in SeqsUpTo(Options, MaxNewOpts)

NextNew == New(newOpts)

SpecNew == InitNew /\ [][NextNew]_vars

(***************************************************************************)
(* Execute with the JSON writer on a pipeline whose defaultJSONStyle field *)
(* holds any of the four style bitmasks.                                   *)
(***************************************************************************)
StylePipelines ==
    {[EmptyPipeline EXCEPT !.query = q, !.defaultJSONStyle = st] :
        q \in {"", ".[]"},
        st \in {JSONStyleCompact, JSONStylePretty, JSONStyleRaw, JSONStylePretty + JSONStyleRaw}}

StyleInputs == {Obj1, Arr(<<Str(Special), Obj1>>), Arr(<<BoolV(TRUE), BigIntV(0)>>)}

InitStyle ==
    /\ pc = "idle"
    /\ p \in StylePipelines
    /\ newOpts = <<>>
    /\ newErr = NilErr
    /\ nApplied = 0
    /\ cfg = InitialConfig(EmptyPipeline)
    /\ supplied = <<>>
    /\ lastTimeout = <<>>
    /\ input = Null
    /\ marshaled = <<>>
    /\ enc = NoEncoder
    /\ iter = NoIter
    /\ pulled = <<>>
    /\ cur = Null
    /\ ctx = "active"
    /\ derived = FALSE
    /\ sink = <<>>
    /\ sinkRet = <<>>
    /\ out = <<>>
    /\ ret = NoErr
    /\ calls = <<>>
    /\ other = IdleCall

NextStyle ==
    \/ Execute_begin
    \/ pc = "configuring" /\ \E o \in {WithWriter("buf", "json")} \cup StyleOptions :
                                Execute_option(o)
    \/ pc = "configuring" /\ \E in \in StyleInputs : Execute_body(in, <<>>, <<>>)
    \/ streamingProcess_next
    \/ pc = "deliver" /\ \E fail \in Failures(cfg, enc, cur) : streamingProcess_callback(fail)

SpecStyle == InitStyle /\ [][NextStyle]_vars

(***************************************************************************)
(* New and Execute with a callback and variable maps of up to MaxVars      *)
(* entries, some of them with a value no strategy converts.                *)
(***************************************************************************)
VarBindings ==
    {[name |-> <<"x">>, val |-> IntV(3)], [name |-> <<"x">>, val |-> Chan],
     [name |-> <<"y">>, val |-> Int32V(7)], [name |-> <<"y">>, val |-> Chan],
     [name |-> <<"x", "y">>, val |-> Str(Special)]}

\* the maps: no two entries under the same key
VarMaps ==
    {S \in SUBSET VarBindings :
        /\ Cardinality(S) <= MaxVars
        /\ \A a, b \in S : a.name = b.name => a = b}

VarsNewOpts ==
    {<<WithQuery(q)>> : q \in {"", ".", "$x"}}
    \cup {<<WithQuery(q), WithInputMarshaler("prefixMarshaler")>> : q \in {"", ".", "$x"}}

InitVars ==
    /\ InitRest
    /\ newOpts \in VarsNewOpts

NextVars ==
    \/ New(newOpts)
    \/ Execute_begin
    \/ pc = "configuring" /\ \E o \in {WithCallback("cb")} \cup {WithVariables(vs) : vs \in VarMaps} :
                                Execute_option(o)
    \/ pc = "configuring" /\ \E in \in {IntV(12), Chan}, order, keyOrder \in Orders(cfg.variables) :
                                Execute_body(in, order, keyOrder)
    \/ streamingProcess_next
    \/ pc = "deliver" /\ \E fail \in Failures(cfg, enc, cur) : streamingProcess_callback(fail)

SpecVars == InitVars /\ [][NextVars]_vars

(***************************************************************************)
(* New and Execute with a callback, the timeout options and a context that *)
(* may end, on a query that ends and on one that does not.  The fair       *)
(* specification adds what the runtime guarantees: the loop of             *)
(* streamingProcess keeps running, the callback returns, and the timer of  *)
(* a derived deadline fires.                                               *)
(***************************************************************************)

TimeoutOptions == {WithCallback("cb"), WithTimeout(-1), WithTimeout(0), WithTimeout(5)}

TimeoutInputs == {IntV(0), BigIntV(0), Arr(<<Obj1, Obj1>>)}

InitTimeout ==
    /\ InitRest
    /\ newOpts \in {<<WithQuery(Endless)>>, <<WithQuery(".[]")>>}

NextTimeout ==
    \/ New(newOpts)
    \/ Execute_begin
    \/ pc = "configuring" /\ \E o \in TimeoutOptions : Execute_option(o)
    \/ pc = "configuring" /\ \E in \in TimeoutInputs : Execute_body(in, <<>>, <<>>)
    \/ \E why \in {"canceled", "deadline", "timeout"} : ContextDone(why)
    \/ streamingProcess_next
    \/ pc = "deliver" /\ \E fail \in Failures(cfg, enc, cur) : streamingProcess_callback(fail)

SpecTimeout == InitTimeout /\ [][NextTimeout]_vars

FairSpecTimeout ==
    /\ SpecTimeout
    /\ WF_vars(ContextDone("timeout"))
    /\ WF_vars(streamingProcess_next)
    /\ WF_vars(pc = "deliver" /\ \E fail \in Failures(cfg, enc, cur) : streamingProcess_callback(fail))

(***************************************************************************)
(* Properties.                                                             *)
(***************************************************************************)
\* Execute is past its option loop and its sink check
Resolved == pc \in {"next", "deliver", "returned"}

EncoderSet == cfg.encoder # "nil" \/ cfg.writer # "nil"
CallbackSet == cfg.callback # "nil"

ConfigErrors ==
    {ErrorsNew("no output method specified: use WithWriter, WithEncoder, or WithCallback"),
     ErrorsNew("cannot specify both encoder and callback")}

\* C1: once the options are applied, a call with neither an encoder/writer nor a
\* callback, or with both, returns a configuration error and nothing reaches a sink
\* or the marshaler; any other call runs in one output mode only: a callback call
\* has no encoder and writes nothing, an encoder call has an encoder and no callback.
C1_SinkModes ==
    Resolved =>
        IF EncoderSet = CallbackSet
        THEN /\ pc = "returned"
             /\ ret \in ConfigErrors
             /\ sink = <<>> /\ out = <<>> /\ marshaled = <<>>
        ELSE /\ ret \notin ConfigErrors
             /\ CallbackSet => enc.kind = "nil" /\ out = <<>>
             /\ EncoderSet => enc.kind # "nil"

C1_Witness ==
    /\ pc = "returned"
    /\ cfg.writer # "nil" /\ cfg.callback # "nil"
    /\ ret = ErrorsNew("cannot specify both encoder and callback")

\* C2: when a sink call returns an error, it is the last sink call, Execute has
\* returned exactly that error value, and with a query the engine was asked for no
\* item beyond the one that sink call received.
C2_SinkErrorStops ==
    \A k \in 1..Len(sinkRet) :
        sinkRet[k] # NilErr =>
            /\ k = Len(sinkRet) /\ Len(sink) = k
            /\ pc = "returned" /\ ret = sinkRet[k]
            /\ p.query # "" => Len(pulled) = k

C2_Witness ==
    /\ pc = "returned"
    /\ Len(sinkRet) = 1 /\ sinkRet[1] = CallbackErr /\ ret = CallbackErr
    /\ iter.items # <<>>

\* the result sequence the engine produces for the call when the context stays live
Produced ==
    LET m == p.inputMarshaler
        vs == {[name |-> e.name, val |-> Marshal(m, e.val).v] : e \in cfg.variables}
        keys == CHOOSE o \in Orders({e.name : e \in vs}) : TRUE
    IN  runQueryWithVariables(p, Marshal(m, input).v, vs, keys).items

\* s is an initial part of t
IsPrefix(s, t) == Len(s) <= Len(t) /\ s = SubSeq(t, 1, Len(s))

\* C3: with a query, the sink receives the engine's results in the engine's order,
\* one at a time: at most one pulled item is not yet delivered, and every item
\* but the last pulled one was delivered and acknowledged without error.
C3_OrderedDelivery ==
    (Resolved /\ p.query # "" /\ iter.kind = "code") =>
        /\ IsPrefix(sink, Produced)
        /\ IsPrefix(sink, pulled)
        /\ Len(pulled) <= Len(sink) + 1
        /\ pc = "deliver" => (Len(pulled) = Len(sink) + 1 /\ cur = pulled[Len(pulled)])
        /\ \A i \in 1..(Len(pulled) - 1) : i <= Len(sinkRet) /\ sinkRet[i] = NilErr

C3_Witness ==
    /\ pc = "returned" /\ ret = NilErr /\ p.query = ".[]"
    /\ Len(sink) = 2 /\ sink[1] # sink[2]

\* C4: when the k-th value the engine hands out is an error marker, nothing more is
\* pulled, Execute has returned an error, and the sink holds exactly the k-1 items
\* before it; Execute returns nil only with the sequence exhausted, no engine error
\* and no sink error.
C4_EngineErrorStops ==
    /\ \A k \in 1..Len(pulled) :
          pulled[k].t = "error" =>
              /\ k = Len(pulled)
              /\ pc = "returned" /\ ret \notin {NilErr, NoErr}
              /\ sink = SubSeq(pulled, 1, k - 1)
    /\ (pc = "returned" /\ ret = NilErr) =>
          /\ \A k \in 1..Len(pulled) : pulled[k].t # "error"
          /\ \A k \in 1..Len(sinkRet) : sinkRet[k] = NilErr
          /\ iter.items = <<>>
          /\ sink = IF p.query = "" THEN <<cur>> ELSE pulled

C4_Witness ==
    /\ pc = "returned" /\ ret.err = "QueryError"
    /\ Len(pulled) = 2 /\ pulled[2].t = "error" /\ Len(sink) = 1

\* C5: an engine error that is the deadline-exceeded signal is returned as a
\* TimeoutError with the timeout of the call, any other engine error as a QueryError
\* with the query text, "execution error" and that error as its cause; a cancelled
\* context therefore yields a QueryError.
C5_ErrorMapping ==
    (pulled # <<>> /\ pulled[Len(pulled)].t = "error") =>
        LET e == pulled[Len(pulled)].e
        IN  /\ e = DeadlineExceeded => ret = TimeoutError(cfg.timeout)
            /\ e # DeadlineExceeded =>
                  /\ ret = QueryError(p.query, "execution error", e)
                  /\ Unwrap(ret) = e
            /\ e = Canceled => ret.err = "QueryError"

C5_Witness ==
    /\ pc = "returned" /\ ctx = "canceled"
    /\ ret = QueryError(p.query, "execution error", Canceled)

\* the first option of the list that fails, 0 when none does
FirstBadOption ==
    LET bad == {i \in 1..Len(newOpts) : newOpts[i] = WithInputMarshaler("nil")}
    IN  IF bad = {} THEN 0 ELSE CHOOSE i \in bad : \A j \in bad : i <= j

\* the query the option list leaves in the pipeline
FinalQuery ==
    LET qs == {i \in 1..Len(newOpts) : newOpts[i].opt = "WithQuery"}
    IN  IF qs = {} THEN "" ELSE newOpts[CHOOSE i \in qs : \A j \in qs : j <= i].query

\* C6: New returns a pipeline and a nil error, or no pipeline and an error.  A failing
\* option gives that option's error and the options after it are not applied;
\* otherwise a final non-empty query that does not parse gives QueryError(query,
\* "failed to parse query", parser error); otherwise New succeeds, and an empty or
\* absent query is never a reason to fail.
C6_NewResult ==
    pc # "init" =>
        /\ (p = NilPipeline) <=> (newErr # NilErr)
        /\ newErr # NoErr
        /\ IF FirstBadOption # 0
           THEN /\ newErr = ErrorsNew("input marshaler cannot be nil")
                /\ nApplied = FirstBadOption - 1
           ELSE IF FinalQuery # "" /\ ~ParseOK(FinalQuery)
           THEN /\ newErr = QueryError(FinalQuery, "failed to parse query", ParseErr)
                /\ Unwrap(newErr) = ParseErr
           ELSE /\ newErr = NilErr
                /\ p.query = FinalQuery
                /\ nApplied = Len(newOpts)

C6_Witness ==
    /\ pc = "failed"
    /\ newOpts = <<WithInputMarshaler("nil"), WithQuery(".[")>>
    /\ p = NilPipeline /\ nApplied = 0

\* C7: without a query, a call that passes the sink check and converts its input
\* hands the converted input to the sink once, as the only item, and returns what
\* that sink call returned; the marshaler saw the input only (no variable), and no
\* query was compiled or run.
C7_NoQuery ==
    /\ (pc = "deliver" /\ p.query = "") =>
          /\ sink = <<>> /\ marshaled = <<input>>
          /\ cur = Marshal(p.inputMarshaler, input).v
    /\ (pc = "returned" /\ p.query = "" /\ ret \notin ConfigErrors
            /\ ret.err # "ConversionError") =>
          /\ sink = <<Marshal(p.inputMarshaler, input).v>>
          /\ Len(sinkRet) = 1 /\ ret = sinkRet[1]
          /\ marshaled = <<input>>
          /\ pulled = <<>> /\ iter = NoIter

C7_Witness ==
    /\ pc = "returned" /\ p.query = "" /\ ret = NilErr
    /\ p.inputMarshaler = "prefixMarshaler" /\ cfg.variables = VarX
    /\ input = Str(Special) /\ sink = <<Str(Prefix \o Special)>>

\* C8: with the YAML writer, the Writes of a call alternate document, separator,
\* document, ...: a separator right before each of the documents 2..N, none before
\* the first; a call whose N sink calls all succeeded leaves 2N-1 Writes, that is
\* N-1 separators and none after the last document, and nothing at all for N = 0.
C8_YAMLSeparators ==
    enc.kind = "yaml" =>
        /\ \A i \in 1..Len(out) :
              IF i % 2 = 0 THEN out[i] = [b |-> Separator]
              ELSE out[i] = [doc |-> sink[(i + 1) \div 2]]
        /\ (pc \in {"next", "returned"} /\ ret # WriteErr) =>
              Len(out) = IF sink = <<>> THEN 0 ELSE 2 * Len(sink) - 1

C8_Witness ==
    /\ enc.kind = "yaml" /\ pc = "returned" /\ ret = NilErr
    /\ Len(sink) = 2 /\ Len(out) = 3 /\ out[2] = [b |-> Separator]

\* the bytes in the writer
RECURSIVE Flatten(_)
Flatten(ws) == IF ws = <<>> THEN <<>> ELSE Head(ws).b \o Flatten(Tail(ws))

\* the execute-option named o was applied in this call
Supplied(o) == \E i \in 1..Len(supplied) : supplied[i] = o

\* the number of line breaks in a byte sequence
RECURSIVE Newlines(_)
Newlines(bs) ==
    IF bs = <<>> THEN 0 ELSE (IF Head(bs) = "\n" THEN 1 ELSE 0) + Newlines(Tail(bs))

\* the bytes expected for the items under the given style
RECURSIVE ExpectedBytes(_, _, _)
ExpectedBytes(items, pretty, raw) ==
    IF items = <<>> THEN <<>>
    ELSE (IF raw /\ Head(items).t = "string" THEN Head(items).s
          ELSE jsonMarshal(Head(items), pretty, 0))
         \o <<"\n">> \o ExpectedBytes(Tail(items), pretty, raw)

\* the call wrote every item it delivered, through the JSON writer
JSONWritten == enc.kind = "json" /\ pc \in {"next", "returned"} /\ ret # WriteErr

\* C9: with the JSON writer and the raw option, the writer holds, for every item in
\* order, the characters of a string item as they are plus one newline, and for any
\* other item its compact JSON text on a single line, whatever else was requested.
C9_RawOutput ==
    (JSONWritten /\ Supplied("WithRawJSONOutput")) =>
        /\ Flatten(out) = ExpectedBytes(sink, FALSE, TRUE)
        /\ \A i \in 1..Len(sink) :
              sink[i].t # "string" => Newlines(jsonMarshal(sink[i], FALSE, 0)) = 0

C9_Witness ==
    /\ JSONWritten /\ pc = "returned" /\ ret = NilErr
    /\ Supplied("WithRawJSONOutput") /\ Supplied("WithPrettyJSONOutput")
    /\ sink = <<Str(Special), Obj1>>

\* the position of the last use of option o among the style options, 0 if unused
LastUse(o) ==
    IF Supplied(o) THEN CHOOSE i \in 1..Len(supplied) : supplied[i] = o ELSE 0

\* C10 as claimed: with the JSON writer, whenever compact and pretty are both
\* supplied, in whatever order, the output is compact.
C10_CompactWins ==
    (JSONWritten /\ Supplied("WithCompactJSONOutput") /\ Supplied("WithPrettyJSONOutput")) =>
        Flatten(out) = ExpectedBytes(sink, FALSE, Supplied("WithRawJSONOutput"))

\* C10, amended: with the JSON writer the output is fixed by which of raw, compact
\* and pretty were supplied and, when compact and pretty both were and raw was not,
\* by which of the two came last: raw gives literal strings and compact JSON for the
\* rest; otherwise the output is indented exactly when pretty was supplied after
\* any compact (the pipeline's default style standing in when neither was supplied).
C10_LastStyleWins ==
    JSONWritten =>
        LET raw == Supplied("WithRawJSONOutput")
                   \/ (p.defaultJSONStyle \div JSONStyleRaw) % 2 = 1
            pretty == IF Supplied("WithCompactJSONOutput") \/ Supplied("WithPrettyJSONOutput")
                      THEN LastUse("WithPrettyJSONOutput") > LastUse("WithCompactJSONOutput")
                      ELSE (p.defaultJSONStyle \div JSONStylePretty) % 2 = 1
        IN  Flatten(out) = ExpectedBytes(sink, pretty /\ ~raw, raw)

C10_Witness ==
    /\ JSONWritten /\ pc = "returned" /\ ret = NilErr
    /\ supplied = <<"WithCompactJSONOutput", "WithPrettyJSONOutput">>
    /\ sink = <<Obj1>>
    /\ Flatten(out) = ExpectedBytes(sink, TRUE, FALSE)
    /\ Newlines(Flatten(out)) > 1

\* C11: with the JSON writer, the encoder is asked for indented output exactly when
\* the call's last compact-or-pretty option is pretty or, the call giving neither,
\* when the pipeline's default style has the pretty flag; with neither it is
\* compact.  Unless raw output is in force, the bytes written follow that choice.
C11_StyleLevels ==
    (Resolved /\ enc.kind = "json") =>
        LET explicit == Supplied("WithCompactJSONOutput") \/ Supplied("WithPrettyJSONOutput")
            pretty == IF explicit
                      THEN LastUse("WithPrettyJSONOutput") > LastUse("WithCompactJSONOutput")
                      ELSE p.defaultJSONStyle \in {2, 6}
            raw == Supplied("WithRawJSONOutput") \/ p.defaultJSONStyle \in {4, 6}
        IN  /\ enc.pretty = pretty
            /\ (JSONWritten /\ ~raw) => Flatten(out) = ExpectedBytes(sink, pretty, FALSE)

C11_Witness ==
    /\ JSONWritten /\ pc = "returned" /\ ret = NilErr
    /\ p.defaultJSONStyle = JSONStylePretty /\ supplied = <<>>
    /\ sink = <<Obj1>>
    /\ Flatten(out) = ExpectedBytes(sink, TRUE, FALSE)
    /\ Newlines(Flatten(out)) > 1

\* the text of one item under the encoder's settings, without the line break after it
ItemText(e, v) ==
    IF e.raw /\ v.t = "string" THEN v.s ELSE jsonMarshal(v, e.pretty /\ ~e.raw, 0)

\* the texts of the items, each followed by one line break
RECURSIVE ItemLines(_, _)
ItemLines(e, items) ==
    IF items = <<>> THEN <<>>
    ELSE ItemText(e, Head(items)) \o <<"\n">> \o ItemLines(e, Tail(items))

\* C12: with the JSON writer, the writer holds the text of every delivered item
\* followed by exactly one line break, the last item included, and nothing else:
\* nothing in front of the first item and nothing between two items.
C12_OneNewlinePerItem ==
    JSONWritten =>
        /\ Flatten(out) = ItemLines(enc, sink)
        /\ Newlines(Flatten(out)) >= Len(sink)
        /\ ~enc.needNewline

C12_Witness ==
    /\ JSONWritten /\ pc = "returned" /\ ret = NilErr
    /\ ~enc.raw /\ ~enc.pretty
    /\ sink = <<Str(Special), Obj1>>
    /\ Newlines(Flatten(out)) = 2
    /\ Flatten(out)[Len(Flatten(out))] = "\n"

\* C13: with the JSON writer, a query that produced several results has written
\* them as one array document that holds all of them.
C13_OneArrayDocument ==
    (JSONWritten /\ pc = "returned" /\ ret = NilErr /\ p.query # "" /\ Len(pulled) >= 2) =>
        Flatten(out) = ItemText(enc, Arr(pulled)) \o <<"\n">>

\* C14: when the call passes the sink check and the marshaling strategy fails on the
\* input, Execute returns ConversionError{input, "jq-compatible", the strategy's
\* error}; no item reached the sink, the strategy saw no variable, and no query was
\* compiled or run.
C14_InputConversionError ==
    (pc = "returned" /\ ret \notin ConfigErrors /\ ~Marshal(p.inputMarshaler, input).ok) =>
        /\ ret = [err |-> "ConversionError", Value |-> input, Type |-> <<"jq-compatible">>,
                  Err |-> Marshal(p.inputMarshaler, input).e]
        /\ Unwrap(ret) = Marshal(p.inputMarshaler, input).e
        /\ sink = <<>> /\ sinkRet = <<>> /\ out = <<>>
        /\ marshaled = <<input>>
        /\ iter = NoIter /\ pulled = <<>>

C14_Witness ==
    /\ pc = "returned" /\ input = Chan
    /\ p.query = "$x" /\ cfg.variables = VarX
    /\ ret.err = "ConversionError" /\ ret.Value = Chan
    /\ marshaled = <<Chan>>

\* C15: with a query, when the call passes the sink check, the input converts and
\* the strategy fails on the value of some variable, Execute returns
\* ConversionError{that variable's value, "variable <its name>", the strategy's
\* error} for one of the variables the strategy fails on, and no item reached the
\* sink.
C15_VariableConversionError ==
    LET m == p.inputMarshaler
    IN  (pc = "returned" /\ p.query # "" /\ ret \notin ConfigErrors /\ Marshal(m, input).ok
            /\ \E e \in cfg.variables : ~Marshal(m, e.val).ok) =>
           /\ \E e \in cfg.variables :
                 /\ ~Marshal(m, e.val).ok
                 /\ ret = [err |-> "ConversionError", Value |-> e.val,
                           Type |-> <<"variable ">> \o e.name, Err |-> Marshal(m, e.val).e]
           /\ sink = <<>> /\ sinkRet = <<>> /\ out = <<>>
           /\ iter = NoIter

C15_Witness ==
    /\ pc = "returned" /\ p.query = "."
    /\ cfg.variables = {[name |-> <<"x">>, val |-> IntV(3)], [name |-> <<"y">>, val |-> Chan]}
    /\ marshaled = <<IntV(12), IntV(3), Chan>>
    /\ ret.err = "ConversionError" /\ ret.Value = Chan /\ ret.Type = <<"variable ", "y">>
    /\ sink = <<>>

\* C16: whenever the query is compiled, the names given to the compiler are the keys
\* of the variable map, each with "$" in front, every key once, in increasing
\* lexicographic order, and the values given to the run are as many, the i-th being
\* the converted value of the variable with the i-th name; whatever order the map
\* was visited in.
C16_SortedNames ==
    iter.kind \in {"code", "errorIter"} =>
        /\ {iter.names[i] : i \in 1..Len(iter.names)} = {<<"$">> \o e.name : e \in cfg.variables}
        /\ Len(iter.names) = Cardinality(cfg.variables)
        /\ \A i, j \in 1..Len(iter.names) : i < j => StringLess(iter.names[i], iter.names[j])
        /\ Len(iter.values) = Len(iter.names)
        /\ \A i \in 1..Len(iter.names) : \E e \in cfg.variables :
              /\ iter.names[i] = <<"$">> \o e.name
              /\ iter.values[i] = Marshal(p.inputMarshaler, e.val).v

C16_Witness ==
    /\ iter.kind = "code" /\ p.inputMarshaler = "nil"
    /\ marshaled = <<IntV(12), Int32V(7), Str(Special)>>
    /\ iter.names = <<<<"$", "x", "y">>, <<"$", "y">>>>
    /\ iter.values = <<Str(Special), FloatV(7)>>

\* C17: when the query does not compile against the call's variable names, Execute
\* returns QueryError{query, "failed to compile query", the compiler's error} and no
\* item reached the sink.
C17_CompileError ==
    (pc = "returned" /\ iter.kind = "errorIter") =>
        /\ ret = [err |-> "QueryError", Query |-> p.query,
                  Message |-> "failed to compile query", Err |-> CompileErr]
        /\ sink = <<>>

\* C18: a call with a positive timeout that is running a query without end
\* eventually returns, and it never returns nil; when every sink call succeeded
\* and the caller did not cancel, what it returns is a TimeoutError.
C18_EndlessQueryTimesOut ==
    /\ (pc \in {"next", "deliver"} /\ iter.endless /\ cfg.timeout > 0) ~> (pc = "returned")
    /\ [](pc = "returned" /\ iter.endless =>
            /\ ret # NilErr
            /\ ((\A i \in 1..Len(sinkRet) : sinkRet[i] = NilErr) /\ ctx # "canceled")
                  => ret.err = "TimeoutError")

C18_Witness ==
    /\ pc = "returned" /\ iter.endless /\ input = IntV(0)
    /\ cfg.timeout = 5 /\ ctx = "timeout"
    /\ sink = <<IntV(0), IntV(1)>>
    /\ ret = TimeoutError(5)

\* C19: a call's timeout is 30 unless it applied a WithTimeout option, and then the
\* duration of the last one; once past the sink check, a deadline-bound context was
\* derived exactly when that timeout is positive, and with a zero or negative
\* timeout the run is never ended by a deadline of Execute's own, only by the
\* caller's context.
C19_TimeoutConfig ==
    /\ pc \in {"configuring", "next", "deliver", "returned"} =>
          cfg.timeout = IF lastTimeout = <<>> THEN 30 ELSE lastTimeout[1]
    /\ (Resolved /\ ret \notin ConfigErrors) =>
          /\ derived <=> cfg.timeout > 0
          /\ cfg.timeout <= 0 => ctx \in {"active", "canceled", "deadline"}

C19_Witness ==
    /\ pc = "returned" /\ lastTimeout = <<-1>> /\ cfg.timeout = -1
    /\ ~derived /\ ctx = "canceled"
    /\ ret.err = "QueryError" /\ ret.Err = Canceled

\* C20: Execute returns a TimeoutError only when the deadline it derived from the
\* call's own positive timeout has passed, and the error carries that timeout; a
\* call with a zero or negative timeout never returns one.
C20_TimeoutErrorOwnDeadline ==
    (pc = "returned" /\ ret.err = "TimeoutError") =>
        /\ ctx = "timeout"
        /\ cfg.timeout > 0
        /\ ret.Duration = cfg.timeout

\* the sink variants the call's options set: custom encoder, writer, callback
SinkVariants ==
    {v \in {"encoder", "writer", "callback"} :
        \/ v = "encoder" /\ cfg.encoder # "nil"
        \/ v = "writer" /\ cfg.writer # "nil"
        \/ v = "callback" /\ cfg.callback # "nil"}

\* C21: a call whose options set two of the three sink variants (custom encoder,
\* writer with format, callback), WithWriter together with WithEncoder included,
\* has returned a configuration error and nothing reached a sink or the writer.
C21_OneSinkVariant ==
    (Resolved /\ Cardinality(SinkVariants) >= 2) =>
        /\ pc = "returned"
        /\ ret \in ConfigErrors
        /\ sink = <<>> /\ out = <<>>

(***************************************************************************)
(* A second Execute call on the same pipeline.  The variables cfg .. ret   *)
(* hold the call-local state of the call that is scheduled, other holds    *)
(* that of the call that is not; the two calls share the pipeline only.    *)
(***************************************************************************)
CallState ==
    [pc |-> pc, cfg |-> cfg, supplied |-> supplied, lastTimeout |-> lastTimeout,
     input |-> input, marshaled |-> marshaled, enc |-> enc, iter |-> iter,
     pulled |-> pulled, cur |-> cur, ctx |-> ctx, derived |-> derived, sink |-> sink,
     sinkRet |-> sinkRet, out |-> out, ret |-> ret]

\* the scheduler takes the running call off and puts the other call on
Switch ==
    /\ pc \notin {"init", "failed"}
    /\ other' = CallState
    /\ pc' = other.pc
    /\ cfg' = other.cfg
    /\ supplied' = other.supplied
    /\ lastTimeout' = other.lastTimeout
    /\ input' = other.input
    /\ marshaled' = other.marshaled
    /\ enc' = other.enc
    /\ iter' = other.iter
    /\ pulled' = other.pulled
    /\ cur' = other.cur
    /\ ctx' = other.ctx
    /\ derived' = other.derived
    /\ sink' = other.sink
    /\ sinkRet' = other.sinkRet
    /\ out' = other.out
    /\ ret' = other.ret
    /\ UNCHANGED <<p, newOpts, newErr, nApplied, calls>>

(***************************************************************************)
(* Two Execute calls, one after the other, on the same input with the      *)
(* style options drawn separately for each; every sink accepts every item. *)
(***************************************************************************)
StylePairOptions ==
    {WithWriter("buf", "json"), WithWriter("buf", "yaml"), WithCallback("cb")} \cup StyleOptions

InitStylePair ==
    /\ InitRest
    /\ newOpts \in {<<>>, <<WithQuery(".[]")>>}

NextStylePair ==
    \/ New(newOpts)
    \/ Execute_begin
    \/ pc = "configuring" /\ \E o \in StylePairOptions : Execute_option(o)
    \/ pc = "configuring" /\ Execute_body(Arr(<<Str(Special), Obj1>>), <<>>, <<>>)
    \/ streamingProcess_next
    \/ pc = "deliver" /\ streamingProcess_callback(0)
    \/ pc = "returned" /\ other.pc = "idle" /\ Switch

SpecStylePair == InitStylePair /\ [][NextStylePair]_vars

\* the executeConfig with the fields of the compact, pretty and raw options blanked
StyleBlind(c) ==
    [c EXCEPT !.compactOutputSet = FALSE, !.compactOutput = FALSE, !.rawOutput = FALSE]

\* the call's sink is the built-in JSON writer
JSONWriterSink(c) == c.writer # "nil" /\ c.encoder = "nil" /\ c.format = "json"

\* C22: two calls on the same pipeline and input whose options differ only in the
\* compact, pretty and raw options, with a YAML writer or a callback as the sink,
\* deliver the same items, write the same bytes and return the same; the items
\* delivered are the engine's result values (the converted input without a query).
C22_StyleOnlyJSON ==
    (/\ pc = "returned" /\ other.pc = "returned"
     /\ StyleBlind(cfg) = StyleBlind(other.cfg)
     /\ ~JSONWriterSink(cfg)) =>
        /\ sink = other.sink
        /\ out = other.out
        /\ ret = other.ret
        /\ ret = NilErr =>
              sink = IF p.query = "" THEN <<Marshal(p.inputMarshaler, input).v>> ELSE Produced

C22_Witness ==
    /\ pc = "returned" /\ other.pc = "returned"
    /\ cfg.writer # "nil" /\ cfg.format = "yaml" /\ cfg.callback = "nil"
    /\ StyleBlind(cfg) = StyleBlind(other.cfg)
    /\ supplied = <<"WithPrettyJSONOutput", "WithRawJSONOutput">> /\ other.supplied = <<>>
    /\ sink = <<Str(Special), Obj1>>
    /\ out = other.out /\ Len(out) = 3

(***************************************************************************)
(* Execute calls one after the other on one pipeline, which was built with *)
(* option slices that have room left in their backing arrays.  Each call   *)
(* starts from fresh locals; the writer keeps what earlier calls wrote.    *)
(***************************************************************************)
\* Execute is called again after it returned: as Execute_begin, with new locals
Execute_again ==
    /\ pc = "returned"
    /\ Len(calls) < MaxCalls
    /\ calls' = Append(calls, [mark |-> Len(out), after |-> ret])
    /\ cfg' = InitialConfig(p)
    /\ pc' = "configuring"
    /\ supplied' = <<>>
    /\ lastTimeout' = <<>>
    /\ input' = Null
    /\ marshaled' = <<>>
    /\ enc' = NoEncoder
    /\ iter' = NoIter
    /\ pulled' = <<>>
    /\ cur' = Null
    /\ ctx' = "active"
    /\ derived' = FALSE
    /\ sink' = <<>>
    /\ sinkRet' = <<>>
    /\ ret' = NoErr
    /\ UNCHANGED <<p, newOpts, newErr, nApplied, out, other>>

ReuseNewOpts ==
    {<<WithQuery(q),
       WithDefaultEncodeOptions(<<"a", "b">>), WithDefaultEncodeOptions(<<"c">>),
       WithCompilerOptions(<<"f", "g">>), WithCompilerOptions(<<"h">>)>> : q \in {"", ".[]", "$x"}}

ReuseOptions ==
    {WithWriter("buf", "yaml"), WithCallback("cb"), WithVariables(VarX)}

InitReuse ==
    /\ InitRest
    /\ newOpts \in ReuseNewOpts

NextReuse ==
    \/ New(newOpts)
    \/ Execute_begin
    \/ Execute_again
    \/ pc = "configuring" /\ \E o \in ReuseOptions : Execute_option(o)
    \/ pc = "configuring" /\ Len(cfg.encodeOptions) < MaxEncodeOpts
                          /\ Execute_option(WithEncodeOptions(<<"e">>))
    \/ pc = "configuring" /\ \E in \in {Arr(<<Obj1, Str(Special)>>), Chan}, order \in Orders(cfg.variables) :
                                Execute_body(in, order, order)
    \/ streamingProcess_next
    \/ pc = "deliver" /\ \E fail \in Failures(cfg, enc, cur) : streamingProcess_callback(fail)

SpecReuse == InitReuse /\ [][NextReuse]_vars

\* the result sequence a call with config c and input in gets from pipeline q
ProducedBy(q, c, in) ==
    LET m == q.inputMarshaler
        vs == {[name |-> e.name, val |-> Marshal(m, e.val).v] : e \in c.variables}
        keys == CHOOSE o \in Orders({e.name : e \in vs}) : TRUE
    IN  runQueryWithVariables(q, Marshal(m, in).v, vs, keys).items

\* C23: from the moment New returned it, the pipeline (query, default encode
\* options and compiler options with their backing arrays, marshaling strategy,
\* default JSON style) stays as New built it through every Execute call, failed
\* or not; and a call that returns nil, however many calls came before it, has
\* delivered what the query yields on the pipeline as New built it.
C23_PipelineUnchanged ==
    pc \notin {"init", "failed"} =>
        LET fresh == NewResult(newOpts).p
        IN  /\ p = fresh
            /\ (pc = "returned" /\ ret = NilErr) =>
                  sink = IF fresh.query = ""
                         THEN <<Marshal(fresh.inputMarshaler, input).v>>
                         ELSE ProducedBy(fresh, cfg, input)

C23_Witness ==
    /\ pc = "returned" /\ ret = NilErr
    /\ Len(calls) = 2 /\ calls[2].after # NilErr
    /\ p.defaultEncodeOptions.spare # <<>> /\ cfg.encodeOptions # <<>>
    /\ p.query = ".[]" /\ Len(sink) = 2

\* the Writes of the running call: what the writer received since the call began
WritesOfCall == SubSeq(out, calls[Len(calls)].mark + 1, Len(out))

\* C30: an Execute call with a YAML writer counts its documents from zero: the
\* first Write of the call is a document, whatever earlier calls wrote to the same
\* writer; after that separators and documents alternate, one document per item.
C30_SeparatorPerCall ==
    (Len(calls) >= 1 /\ enc.kind = "yaml") =>
        /\ enc.documentCount <= Len(sink)
        /\ \A i \in 1..Len(WritesOfCall) :
              WritesOfCall[i] = IF i % 2 = 1 THEN [doc |-> sink[(i + 1) \div 2]]
                                ELSE [b |-> Separator]

C30_Witness ==
    /\ Len(calls) = 2 /\ enc.kind = "yaml"
    /\ calls[2].mark >= 1 /\ calls[2].after = NilErr
    /\ out[calls[2].mark] = [doc |-> Str(Special)]
    /\ Len(WritesOfCall) >= 1
    /\ out[calls[2].mark + 1] = [doc |-> Obj1]

(***************************************************************************)
(* Two Execute calls running at the same time on one pipeline, each with   *)
(* its own sink; the scheduler may switch between them at every step.      *)
(***************************************************************************)
ConcurrentNewOpts ==
    {<<WithQuery(q),
       WithDefaultEncodeOptions(<<"a", "b">>), WithDefaultEncodeOptions(<<"c">>),
       WithCompilerOptions(<<"f", "g">>), WithCompilerOptions(<<"h">>)>> : q \in {".[]", "$x"}}

ConcurrentOptions == {WithWriter("buf", "yaml"), WithCallback("cb"), WithVariables(VarX)}

InitConcurrent ==
    /\ InitRest
    /\ newOpts \in ConcurrentNewOpts

NextConcurrent ==
    \/ New(newOpts)
    \/ Execute_begin
    \/ pc = "configuring" /\ \E o \in ConcurrentOptions : Execute_option(o)
    \/ pc = "configuring" /\ Len(cfg.encodeOptions) < MaxEncodeOpts
                          /\ Execute_option(WithEncodeOptions(<<"e">>))
    \/ pc = "configuring" /\ \E order \in Orders(cfg.variables) :
                                Execute_body(Arr(<<Obj1, Str(Special)>>), order, order)
    \/ streamingProcess_next
    \/ pc = "deliver" /\ \E fail \in Failures(cfg, enc, cur) : streamingProcess_callback(fail)
    \/ Switch

SpecConcurrent == InitConcurrent /\ [][NextConcurrent]_vars

\* the call with local state c has, so far, done what it does when it runs alone
\* on the pipeline q: its sink holds the first results of its own query run, all of
\* them once it returned nil, and its writer holds its own documents only
AsAlone(q, c) ==
    (c.pc \in {"next", "deliver", "returned"} /\ c.ret \notin ConfigErrors) =>
        /\ IsPrefix(c.sink, ProducedBy(q, c.cfg, c.input))
        /\ (c.pc = "returned" /\ c.ret = NilErr) => c.sink = ProducedBy(q, c.cfg, c.input)
        /\ c.enc.kind = "nil" => c.out = <<>>
        /\ c.enc.kind = "yaml" =>
              /\ c.enc.documentCount <= Len(c.sink)
              /\ c.enc.options = q.defaultEncodeOptions.elems \o c.cfg.encodeOptions
              /\ \A i \in 1..Len(c.out) :
                    c.out[i] = IF i % 2 = 1 THEN [doc |-> c.sink[(i + 1) \div 2]]
                               ELSE [b |-> Separator]

\* C24: under every interleaving of two Execute calls on one pipeline, the pipeline
\* they share stays as New built it (neither call writes what the other reads), and
\* each call, the running one and the descheduled one, has delivered to its sink
\* what it delivers when it runs alone.
C24_NoInterference ==
    pc \notin {"init", "failed"} =>
        /\ p = NewResult(newOpts).p
        /\ AsAlone(NewResult(newOpts).p, CallState)
        /\ AsAlone(NewResult(newOpts).p, other)

C24_Witness ==
    /\ pc = "deliver" /\ other.pc = "deliver"
    /\ Len(sink) = 1 /\ Len(other.sink) = 1
    /\ cfg.writer # "nil" /\ other.cfg.callback # "nil"
    /\ cfg.encodeOptions # <<>> /\ other.cfg.variables # {}
    /\ p.compilerOptions.spare # <<>>

\* what the marshaling strategy in force on the pipeline makes of v: the one given
\* to WithInputMarshaler, the default normalizer when none was given
ActiveStrategy(v) ==
    IF p.inputMarshaler = "prefixMarshaler" THEN prefixMarshaler_Marshal(v)
    ELSE convertToJQCompatible(v)

\* C25: when the engine is started, the strategy in force was called once on the
\* input and once on every variable value and on nothing else, and what the engine
\* got is the strategy's results: the values bound to the variable names are the
\* converted variable values, "." yields the converted input, "$x" the converted x.
C25_OneStrategy ==
    iter.kind \in {"code", "errorIter"} =>
        /\ Len(marshaled) = 1 + Cardinality(cfg.variables)
        /\ marshaled[1] = input
        /\ {marshaled[i] : i \in 2..Len(marshaled)} = {e.val : e \in cfg.variables}
        /\ \A i \in 1..Len(iter.names) : \E e \in cfg.variables :
              /\ iter.names[i] = <<"$">> \o e.name
              /\ iter.values[i] = ActiveStrategy(e.val).v
        /\ (iter.kind = "code" /\ p.query = "." /\ pulled # <<>>) =>
              pulled[1] = ActiveStrategy(input).v
        /\ (iter.kind = "code" /\ p.query = "$x" /\ pulled # <<>>) =>
              \E e \in cfg.variables : e.name = <<"x">> /\ pulled[1] = ActiveStrategy(e.val).v

C25_Witness ==
    /\ pc = "returned" /\ ret = NilErr
    /\ p.inputMarshaler = "prefixMarshaler" /\ p.query = "$x"
    /\ cfg.variables = {[name |-> <<"x">>, val |-> IntV(3)],
                        [name |-> <<"x", "y">>, val |-> Str(Special)]}
    /\ iter.values = <<FloatV(3), Str(Prefix \o Special)>>
    /\ sink = <<FloatV(3)>>

(***************************************************************************)
(* The default normalizer on its own: Execute without a query, with a      *)
(* callback, on values built from the engine's types nested up to          *)
(* MaxDepth, and on a few values outside those types.                      *)
(***************************************************************************)

NormScalars == {Null, BoolV(TRUE), Str(Special), IntV(12), FloatV(12), BigIntV(0)}

RECURSIVE NormValues(_)
NormValues(d) ==
    IF d = 0 THEN NormScalars
    ELSE LET inner == NormValues(d - 1)
         IN  inner \cup {Arr(<<>>)}
                   \cup {Arr(<<a, s>>) : a \in inner, s \in {Null, IntV(12)}}
                   \cup {Obj(<<[k |-> "k", v |-> a]>>) : a \in inner}

NormInputs == NormValues(MaxDepth) \cup {Int32V(7), Arr(<<Int32V(7), Null>>), Chan}

InitNormalize ==
    /\ InitRest
    /\ newOpts = <<>>

NextNormalize ==
    \/ New(newOpts)
    \/ Execute_begin
    \/ pc = "configuring" /\ cfg.callback = "nil" /\ Execute_option(WithCallback("cb"))
    \/ pc = "configuring" /\ \E in \in NormInputs : Execute_body(in, <<>>, <<>>)
    \/ pc = "deliver" /\ \E fail \in Failures(cfg, enc, cur) : streamingProcess_callback(fail)

SpecNormalize == InitNormalize /\ [][NextNormalize]_vars

\* v is built only from null, booleans, strings, ints, float64s, big integers, and
\* lists and string-keyed maps of such values
RECURSIVE OnlyEngineTypes(_)
OnlyEngineTypes(v) ==
    CASE v.t \in {"nil", "bool", "string", "int", "float64", "big.Int"} -> TRUE
      [] v.t = "array" -> \A i \in 1..Len(v.a) : OnlyEngineTypes(v.a[i])
      [] v.t = "object" -> \A i \in 1..Len(v.o) : OnlyEngineTypes(v.o[i].v)
      [] OTHER -> FALSE

\* C26: when the default normalizer was applied to an input built only from the
\* engine's types, it returned no error and the value that goes to the sink is the
\* input itself: same scalars with the same types, same lists, same maps.
C26_NormalizerIdentity ==
    (p.ptr # "nil" /\ p.inputMarshaler = "nil" /\ marshaled # <<>> /\ OnlyEngineTypes(input)) =>
        /\ ret = NoErr \/ ret.err # "ConversionError"
        /\ pc = "deliver" => cur = input
        /\ sink # <<>> => sink = <<input>>

C26_Witness ==
    /\ pc = "returned" /\ ret = NilErr
    /\ input = Arr(<<Obj(<<[k |-> "k", v |-> BigIntV(0)]>>), IntV(12)>>)
    /\ sink = <<input>>

\* C27: Execute returns the error of the first stage that fails, in the order sink
\* check, input conversion, variable conversion, compilation, and runs no stage
\* after it: a call with a wrong sink configuration never called the marshaling
\* strategy; a call whose input fails conversion converted no variable and started
\* no engine; a call with a failing variable started no engine; whatever later
\* stages would have done.
C27_StageOrder ==
    LET m == p.inputMarshaler
        sinkBad == EncoderSet = CallbackSet
        inputBad == ~Marshal(m, input).ok
        varsBad == p.query # "" /\ \E e \in cfg.variables : ~Marshal(m, e.val).ok
    IN  pc = "returned" =>
            IF sinkBad
            THEN /\ ret \in ConfigErrors
                 /\ marshaled = <<>> /\ iter = NoIter /\ sink = <<>>
            ELSE IF inputBad
            THEN /\ ret = inputConversionError(input, Marshal(m, input).e)
                 /\ marshaled = <<input>> /\ iter = NoIter /\ sink = <<>>
            ELSE IF varsBad
            THEN /\ ret.err = "ConversionError"
                 /\ SubSeq(ret.Type, 1, 1) = <<"variable ">>
                 /\ marshaled[1] = input /\ iter = NoIter /\ sink = <<>>
            ELSE IF iter.kind = "errorIter"
            THEN /\ ret.err = "QueryError"
                 /\ Len(marshaled) = 1 + Cardinality(cfg.variables) /\ sink = <<>>
            ELSE ret \notin ConfigErrors /\ ret.err # "ConversionError"

C27_Witness ==
    /\ pc = "returned" /\ p.query = "$x"
    /\ cfg.callback # "nil"
    /\ input = Chan
    /\ cfg.variables = {[name |-> <<"y">>, val |-> Chan]}
    /\ ret.err = "ConversionError" /\ ret.Type = <<"jq-compatible">>
    /\ marshaled = <<Chan>>

(***************************************************************************)
(* Two Execute calls, one after the other, with variable maps that may     *)
(* hold more than one value no strategy converts.                          *)
(***************************************************************************)
InitVarsPair ==
    /\ InitRest
    /\ newOpts \in {<<WithQuery(".")>>, <<WithQuery("$x")>>}

NextVarsPair ==
    \/ New(newOpts)
    \/ Execute_begin
    \/ pc = "configuring" /\ \E o \in {WithCallback("cb")} \cup {WithVariables(vs) : vs \in VarMaps} :
                                Execute_option(o)
    \/ pc = "configuring" /\ \E order, keyOrder \in Orders(cfg.variables) :
                                Execute_body(IntV(12), order, keyOrder)
    \/ streamingProcess_next
    \/ pc = "deliver" /\ \E fail \in Failures(cfg, enc, cur) : streamingProcess_callback(fail)
    \/ pc = "returned" /\ other.pc = "idle" /\ Switch

SpecVarsPair == InitVarsPair /\ [][NextVarsPair]_vars

\* C28: two Execute calls on the same pipeline with the same input, the same
\* options and variable map, and sinks that answered alike, return the same: nil
\* both, or errors of the same kind and contents.
C28_SameOutcome ==
    (/\ pc = "returned" /\ other.pc = "returned"
     /\ cfg = other.cfg /\ input = other.input
     /\ sinkRet = other.sinkRet) =>
        ret = other.ret

(***************************************************************************)
(* Execute with and without a query under a context that may be done       *)
(* before the call starts, or end while it runs.                           *)
(***************************************************************************)
\* the caller's context is cancelled, or past its deadline, when Execute is called
ContextDoneBefore(why) ==
    /\ pc = "configuring"
    /\ ctx = "active"
    /\ why \in {"canceled", "deadline"}
    /\ ctx' = why
    /\ UNCHANGED <<pc, p, newOpts, newErr, nApplied, cfg, supplied, lastTimeout, input,
                   marshaled, enc, iter, pulled, cur, derived, sink, sinkRet, out, ret,
                   calls, other>>


NoQueryOptions ==
    {WithCallback("cb"), WithWriter("buf", "json"), WithTimeout(0), WithTimeout(5)}

InitNoQuery ==
    /\ InitRest
    /\ newOpts \in {<<>>, <<WithQuery("")>>, <<WithQuery(".")>>}

NextNoQuery ==
    \/ New(newOpts)
    \/ Execute_begin
    \/ pc = "configuring" /\ \E o \in NoQueryOptions : Execute_option(o)
    \/ \E why \in {"canceled", "deadline"} : ContextDoneBefore(why)
    \/ pc = "configuring" /\ \E in \in {Obj1, Chan} : Execute_body(in, <<>>, <<>>)
    \/ \E why \in {"canceled", "deadline", "timeout"} : ContextDone(why)
    \/ streamingProcess_next
    \/ pc = "deliver" /\ \E fail \in Failures(cfg, enc, cur) : streamingProcess_callback(fail)

SpecNoQuery == InitNoQuery /\ [][NextNoQuery]_vars

\* C29: on a pipeline without a query Execute never returns a TimeoutError or a
\* QueryError, and a call that passed the sink check and converted its input has
\* handed the converted input to the sink exactly once and returned what the sink
\* returned, whether the context was done before the call, ended during it, or not.
C29_NoQueryIgnoresContext ==
    (p.ptr # "nil" /\ p.query = "") =>
        /\ ret.err \notin {"TimeoutError", "QueryError"}
        /\ (pc = "returned" /\ ret \notin ConfigErrors /\ Marshal(p.inputMarshaler, input).ok) =>
              /\ sink = <<Marshal(p.inputMarshaler, input).v>>
              /\ Len(sinkRet) = 1 /\ ret = sinkRet[1]

C29_Witness ==
    /\ pc = "returned" /\ p.query = "" /\ ret = NilErr
    /\ ctx = "canceled" /\ derived /\ pulled = <<>>
    /\ sink = <<Obj1>> /\ out # <<>>

====
